---- MODULE Spec2Model ----
(***************************************************************************)
(* Brand-kit build of NicoLafakis/brand-builder: buildBrandKit             *)
(* (src/lib/services/brand-kit-builder.ts) driving extractBrandAssets      *)
(* (cheerio + vision + LLM extractor, src/unnamed/part_004) and the        *)
(* AI-enhanced generators.  One behaviour is one build; the environment    *)
(* (web server, Firecrawl, OpenAI) answers each request with an outcome    *)
(* drawn from a small set, or never answers it.                            *)
(***************************************************************************)
EXTENDS Integers, Sequences, FiniteSets, TLC

(***************************************************************************)
(* Bounds of the model.                                                    *)
(***************************************************************************)
\* longest raw colour list a vision response carries
MaxVisionRaw == 6
\* most <link rel="stylesheet"> elements on the fetched page
MaxLinks == 6
\* largest degree count written in a gradient
MaxDegree == 360
\* longest colour list given to buildColorPalette
MaxPaletteInput == 3
\* longest font list given to buildTypography
MaxDetectedFonts == 3
\* channel values tried lie within this distance of 0 and of 255
ChannelEdge == 2

(***************************************************************************)
(* Program constants.                                                      *)
(***************************************************************************)
\* stylesheetUrls.slice(0, 5)
MaxStylesheets == 5
\* colors.length < 3
ColorThreshold == 3
\* fonts.length < 1
FontThreshold == 1
\* uniqueColors.slice(0, 20)
ColorCap == 20
\* fonts.slice(0, 10)
FontCap == 10
\* generateNeutralScale(baseColor, steps = 10)
NeutralSteps == 10
\* c.hsl.l > 10 && c.hsl.l < 90
MinLightness == 10
MaxLightness == 90
\* clusterColors(colors, threshold = 25)
ClusterThreshold == 25
\* chroma.deltaE(c.hex, primaryBase.hex) > 30
SecondaryDistance == 30
\* chroma.deltaE(c.hex, primaryBase.hex) > 40
AccentDistance == 40
\* chroma.deltaE(c.hex, secondaryBase.hex) > 30
AccentSecondaryDistance == 30

(***************************************************************************)
(* Sequence helpers (JavaScript array / Set / Map idioms).                 *)
(***************************************************************************)
Range(s) == {s[i] : i \in DOMAIN s}

Includes(s, x) == \E i \in DOMAIN s : s[i] = x

\* Set.prototype.add on an insertion-ordered Set
SetAdd(s, x) == IF Includes(s, x) THEN s ELSE Append(s, x)

RECURSIVE SetAddAll(_, _)
SetAddAll(s, xs) ==
  IF xs = <<>> THEN s ELSE SetAddAll(SetAdd(s, Head(xs)), Tail(xs))

\* [...new Set(xs)]
Unique(xs) == SetAddAll(<<>>, xs)

\* Array.prototype.slice(0, n)
Slice0(s, n) == IF Len(s) <= n THEN s ELSE SubSeq(s, 1, n)

RECURSIVE Flatten(_)
Flatten(ss) == IF ss = <<>> THEN <<>> ELSE Head(ss) \o Flatten(Tail(ss))

IsPrefix(s, t) == Len(s) <= Len(t) /\ SubSeq(t, 1, Len(s)) = s

(***************************************************************************)
(* Strings.  A string of the program is a TLA+ string; the conversions the *)
(* code applies to it are tables over the strings the model uses.          *)
(***************************************************************************)
NoColor == "null"

\* String.prototype.toLowerCase
ToLowerCase(s) ==
  CASE s = "#FF0000" -> "#ff0000"
    [] s = "#FFFFFF" -> "#ffffff"
    [] s = "Inter" -> "inter"
    [] s = "Georgia" -> "georgia"
    [] s = "Arial" -> "arial"
    [] s = "Fira Code" -> "fira code"
    [] OTHER -> s

\* parseColor(v)?.hex : chroma(v).hex() is the lower-case #rrggbb form,
\* null when chroma rejects the value
parseColorHex(v) ==
  CASE v \in {"#ff0000", "#FF0000", "#f00"} -> "#ff0000"
    [] v \in {"#0000cc", "rgb(0, 0, 204)"} -> "#0000cc"
    [] v \in {"#ffffff", "#FFFFFF", "#fff"} -> "#ffffff"
    [] v \in {"#00aa00", "#1e3a8a", "#028393", "#f65625", "#7c3aed",
              "#0ea5e9", "#333333"} -> v
    [] OTHER -> NoColor

\* /^#[0-9A-Fa-f]{6}$/.test(hex)
VisionHexOk(hex) ==
  hex \in {"#ff0000", "#FF0000", "#0000cc", "#ffffff", "#FFFFFF", "#00aa00",
           "#1e3a8a", "#028393", "#f65625", "#7c3aed", "#0ea5e9", "#333333"}

\* value.split(',').map(f => f.trim().replace(/['"]/g, ''))
FontStack(v) ==
  CASE v = "'Inter', sans-serif" -> <<"Inter", "sans-serif">>
    [] v = "Georgia, serif" -> <<"Georgia", "serif">>
    [] v = "sans-serif, Inter" -> <<"sans-serif", "Inter">>
    [] OTHER -> <<v>>

GenericFonts ==
  {"serif", "sans-serif", "monospace", "cursive", "fantasy", "system-ui"}

parseFontFamily(v) ==
  LET fonts == FontStack(v)
      custom == SelectSeq(fonts, LAMBDA f : ToLowerCase(f) \notin GenericFonts)
  IN IF custom # <<>> THEN Head(custom) ELSE Head(fonts)

categorizeFont(v) ==
  LET family == ToLowerCase(v)
  IN CASE family \in {"fira code"} -> "monospace"
       [] family \in {"georgia", "georgia, serif"} -> "serif"
       [] OTHER -> "sans-serif"

(***************************************************************************)
(* CSS as the collector sees it.  A CSS text is its declarations in        *)
(* document order (those of @font-face blocks apart) and whether css-tree  *)
(* parses it; a value is a string whose regex matches are tabulated.       *)
(***************************************************************************)
Decl(p, v) == [property |-> p, value |-> v]

\* matches of /#[0-9a-fA-F]{3,8}\b/g, then rgba?\(...\), then hsla?\(...\)
ColorsIn(value) ==
  CASE value \in {"#ff0000", "#FFFFFF", "#00aa00", "#1e3a8a", "#7c3aed",
                  "#f65625", "rgb(0, 0, 204)"} -> <<value>>
    [] value = "linear-gradient(to right, #ff0000, #00aa00)"
         -> <<"#ff0000", "#00aa00">>
    [] value = "radial-gradient(circle, #7c3aed, #0ea5e9)"
         -> <<"#7c3aed", "#0ea5e9">>
    [] OTHER -> <<>>

\* matches of /(linear|radial|conic)-gradient\([^)]+\)/gi
GradientsIn(value) ==
  IF value \in {"linear-gradient(to right, #ff0000, #00aa00)",
                "radial-gradient(circle, #7c3aed, #0ea5e9)"}
  THEN <<value>> ELSE <<>>

EmptyCSSData ==
  [colors |-> <<>>, gradients |-> <<>>, fonts |-> <<>>, cssVariables |-> <<>>]

\* Map.prototype.has / get / set on the insertion-ordered fonts map
FontsHas(fonts, family) == \E i \in DOMAIN fonts : fonts[i].family = family

FontsSetNew(fonts, family, weights, source) ==
  IF FontsHas(fonts, family) THEN fonts
  ELSE Append(fonts, [family |-> family, weights |-> weights, source |-> source])

FontsAddWeight(fonts, family, w) ==
  [i \in DOMAIN fonts |->
     IF fonts[i].family = family
     THEN [fonts[i] EXCEPT !.weights = SetAdd(@, w)] ELSE fonts[i]]

\* cssVariables.set(name, value): a new key goes last, an old key keeps its place
VarsSet(vars, name, value) ==
  IF \E i \in DOMAIN vars : vars[i].name = name
  THEN [i \in DOMAIN vars |->
          IF vars[i].name = name THEN [name |-> name, value |-> value] ELSE vars[i]]
  ELSE Append(vars, [name |-> name, value |-> value])

extractColorsFromValue(value, cssData) ==
  [cssData EXCEPT !.colors = SetAddAll(@, ColorsIn(value))]

extractGradientsFromValue(value, cssData) ==
  [cssData EXCEPT !.gradients = SetAddAll(@, GradientsIn(value))]

\* the family a font-family declaration names: value.split(',')[0], unquoted
FirstFamily(value) == Head(FontStack(value))

\* property.includes('color') || includes('bg') || includes('background')
LooksLikeColorVar(property) ==
  property \in {"--brand-color", "--bg", "--background"}

ColorProperties ==
  {"color", "background-color", "border-color", "fill", "stroke", "background"}

\* parseInlineStyle: regexes over the whole attribute, first font-family only
parseInlineStyle(style, cssData) ==
  LET values == [i \in DOMAIN style |-> style[i].value]
      cols == Flatten([i \in DOMAIN values |-> ColorsIn(values[i])])
      grads == Flatten([i \in DOMAIN values |-> GradientsIn(values[i])])
      fams == SelectSeq(style, LAMBDA d : d.property = "font-family")
      d1 == [cssData EXCEPT !.colors = SetAddAll(@, cols),
                            !.gradients = SetAddAll(@, grads)]
  IN IF fams = <<>> THEN d1
     ELSE [d1 EXCEPT !.fonts =
             FontsSetNew(@, FirstFamily(Head(fams).value), <<"400">>, "")]

\* the 'Declaration' visitor of parseCSS, one declaration
VisitDeclaration(d, cssData) ==
  LET isVar == d.property \in {"--brand-color", "--bg", "--background",
                               "--font-size", "--accent"}
      d1 == IF isVar
            THEN [cssData EXCEPT !.cssVariables = VarsSet(@, d.property, d.value)]
            ELSE cssData
      d2 == IF isVar /\ LooksLikeColorVar(d.property)
            THEN extractColorsFromValue(d.value, d1) ELSE d1
      d3 == IF d.property \in ColorProperties
            THEN extractColorsFromValue(d.value, d2) ELSE d2
      d4 == IF d.property \in {"background", "background-image"}
            THEN extractGradientsFromValue(d.value, d3) ELSE d3
  IN IF d.property = "font-family" /\ FirstFamily(d.value) # ""
        /\ d.value # "var(--font)"
     THEN [d4 EXCEPT !.fonts = FontsSetNew(@, FirstFamily(d.value), <<>>, "")]
     ELSE d4

RECURSIVE WalkDeclarations(_, _)
WalkDeclarations(decls, cssData) ==
  IF decls = <<>> THEN cssData
  ELSE WalkDeclarations(Tail(decls), VisitDeclaration(Head(decls), cssData))

\* the 'Atrule' visitor of parseCSS over the @font-face blocks
RECURSIVE WalkFontFaces(_, _)
WalkFontFaces(faces, cssData) ==
  IF faces = <<>> THEN cssData
  ELSE LET f == Head(faces)
           d1 == [cssData EXCEPT !.fonts = FontsSetNew(@, f.family, <<>>, f.src)]
           d2 == [d1 EXCEPT !.fonts = FontsAddWeight(@, f.family, f.weight)]
       IN WalkFontFaces(Tail(faces), IF f.family = "" THEN cssData ELSE d2)

\* the declarations css-tree visits: every declaration, those inside
\* @font-face blocks included
FaceDecls(faces) ==
  [i \in DOMAIN faces |-> Decl("font-family", faces[i].family)]

\* extractWithRegex: colours and gradients anywhere in the text, fonts from
\* @font-face blocks only
extractWithRegex(text, cssData) ==
  LET cols == Flatten([i \in DOMAIN text.decls |-> ColorsIn(text.decls[i].value)])
      grads == Flatten([i \in DOMAIN text.decls |-> GradientsIn(text.decls[i].value)])
      d1 == [cssData EXCEPT !.colors = SetAddAll(@, cols),
                            !.gradients = SetAddAll(@, grads)]
  IN WalkFontFaces(text.fontFaces, d1)

\* parseCSS: css-tree walk, regex fallback when csstree.parse throws
parseCSS(text, cssData) ==
  IF text.parses
  THEN WalkFontFaces(text.fontFaces,
         WalkDeclarations(text.decls \o FaceDecls(text.fontFaces), cssData))
  ELSE extractWithRegex(text, cssData)

RECURSIVE ParseAll(_, _)
ParseAll(texts, cssData) ==
  IF texts = <<>> THEN cssData
  ELSE ParseAll(Tail(texts), parseCSS(Head(texts), cssData))

RECURSIVE ParseAllInline(_, _)
ParseAllInline(styles, cssData) ==
  IF styles = <<>> THEN cssData
  ELSE ParseAllInline(Tail(styles), parseInlineStyle(Head(styles), cssData))

\* extractGoogleFonts for one href: the families of its family= parameter
GoogleFamilies(href) ==
  IF href = "https://fonts.googleapis.com/css2?family=Inter:wght@400;700"
  THEN <<[name |-> "Inter", weights |-> <<"400", "700">>]>>
  ELSE <<>>

RECURSIVE AddGoogleFamilies(_, _)
AddGoogleFamilies(fams, cssData) ==
  IF fams = <<>> THEN cssData
  ELSE LET f == Head(fams)
           d1 == [cssData EXCEPT
                    !.fonts = FontsSetNew(@, f.name, <<>>, "Google Fonts")]
           ws == CHOOSE i \in DOMAIN d1.fonts : d1.fonts[i].family = f.name
           d2 == [d1 EXCEPT !.fonts[ws].weights = SetAddAll(@, f.weights)]
       IN AddGoogleFamilies(Tail(fams), d2)

extractGoogleFonts(href, cssData) == AddGoogleFamilies(GoogleFamilies(href), cssData)

RECURSIVE ExtractAllGoogleFonts(_, _)
ExtractAllGoogleFonts(hrefs, cssData) ==
  IF hrefs = <<>> THEN cssData
  ELSE ExtractAllGoogleFonts(Tail(hrefs), extractGoogleFonts(Head(hrefs), cssData))

(***************************************************************************)
(* Collector post-processing.                                              *)
(***************************************************************************)
nonBrandColors ==
  {"#000000", "#ffffff", "#000", "#fff", "#333333", "#666666", "#999999", "#cccccc"}

parseColorsFromCSS(cssData) ==
  LET fromTokens == SelectSeq([i \in DOMAIN cssData.colors |->
                                 parseColorHex(cssData.colors[i])],
                              LAMBDA h : h # NoColor)
      fromVars == SelectSeq([i \in DOMAIN cssData.cssVariables |->
                               parseColorHex(cssData.cssVariables[i].value)],
                            LAMBDA h : h # NoColor)
      uniqueColors == SelectSeq(Unique(fromTokens \o fromVars),
                                LAMBDA c : ToLowerCase(c) \notin nonBrandColors)
  IN Slice0(uniqueColors, ColorCap)

NoAngle == -1

\* A gradient string as its words: the function name, "(", the words of the
\* direction, the colour stops and ")"; a degree count is the numeral and "deg".
Words(css) ==
  CASE css = "radial-gradient(circle, #7c3aed, #0ea5e9)"
         -> <<"radial-gradient", "(", "circle", ",", "#7c3aed", ",", "#0ea5e9", ")">>
    [] css = "linear-gradient(to right, #ff0000, #00aa00)"
         -> <<"linear-gradient", "(", "to", "right", ",", "#ff0000", ",", "#00aa00", ")">>
    [] OTHER -> <<css>>

\* String.prototype.includes on the words of a string
IncludesWords(words, part) ==
  \E i \in 1..(Len(words) - Len(part) + 1) :
    SubSeq(words, i, i + Len(part) - 1) = part

\* /\d+/ and parseInt(m, 10) on a numeral
IsDigits(w) == \E n \in 0..MaxDegree : ToString(n) = w
parseInt(w) == CHOOSE n \in 0..MaxDegree : ToString(n) = w

\* css.match(/linear-gradient\(\s*(\d+)deg/)
AngleMatch(words) ==
  {i \in 1..(Len(words) - 3) :
     /\ words[i] = "linear-gradient" /\ words[i + 1] = "("
     /\ IsDigits(words[i + 2]) /\ words[i + 3] = "deg"}

\* the type and angle parseGradientsFromCSS derives from a gradient string
GradientShape(words) ==
  IF IncludesWords(words, <<"radial-gradient">>)
  THEN [type |-> "radial", angle |-> NoAngle]
  ELSE IF IncludesWords(words, <<"conic-gradient">>)
  THEN [type |-> "conic", angle |-> NoAngle]
  ELSE [type |-> "linear",
        angle |->
          IF AngleMatch(words) # {}
          THEN parseInt(words[(CHOOSE i \in AngleMatch(words) :
                                 \A j \in AngleMatch(words) : i <= j) + 2])
          ELSE IF IncludesWords(words, <<"to", "right">>) THEN 90
          ELSE IF IncludesWords(words, <<"to", "left">>) THEN 270
          ELSE IF IncludesWords(words, <<"to", "bottom">>) THEN 180
          ELSE IF IncludesWords(words, <<"to", "top">>) THEN 0
          ELSE NoAngle]

GradientOf(css) ==
  LET shape == GradientShape(Words(css))
  IN [css |-> css, type |-> shape.type, angle |-> shape.angle]

parseGradientsFromCSS(cssData) ==
  LET gs == [i \in DOMAIN cssData.gradients |-> GradientOf(cssData.gradients[i])]
      idx == {i \in DOMAIN gs : \A j \in 1..(i - 1) : gs[j].css # gs[i].css}
  IN SelectSeq(gs, LAMBDA g : \E i \in idx : gs[i] = g)

systemFonts ==
  {"serif", "sans-serif", "monospace", "cursive", "fantasy", "system-ui",
   "-apple-system", "blinkmacsystemfont", "segoe ui", "arial", "helvetica",
   "times new roman", "times", "courier new", "courier", "inherit", "initial"}

parseFontsFromCSS(cssData) ==
  LET kept == SelectSeq(cssData.fonts,
                        LAMBDA f : ToLowerCase(f.family) \notin systemFonts)
      fonts == [i \in DOMAIN kept |->
                  [family |-> parseFontFamily(kept[i].family),
                   variants |-> IF kept[i].weights # <<>>
                                THEN kept[i].weights ELSE <<"400">>,
                   category |-> categorizeFont(kept[i].family),
                   source |-> kept[i].source]]
  IN Slice0(fonts, FontCap)

(***************************************************************************)
(* The fetched page: what cheerio selects from the HTML.                   *)
(***************************************************************************)
NoPage == [kind |-> "none", nLinks |-> 0]

Pages == [kind : {"bare", "styled"}, nLinks : 0..MaxLinks]

LinearCss == "linear-gradient(to right, #ff0000, #00aa00)"
RadialCss == "radial-gradient(circle, #7c3aed, #0ea5e9)"
GoogleHref == "https://fonts.googleapis.com/css2?family=Inter:wght@400;700"

\* $('[style]') : the style attributes, in document order
InlineStyles(p) ==
  IF p.kind = "styled" THEN << <<Decl("background", LinearCss)>> >> ELSE <<>>

\* $('style') : the <style> blocks
StyleBlocks(p) ==
  IF p.kind = "styled"
  THEN <<[parses |-> TRUE,
          decls |-> <<Decl("color", "#FFFFFF"), Decl("font-size", "16px")>>,
          fontFaces |-> <<>>]>>
  ELSE <<>>

\* $('link[rel="stylesheet"]') : link i of the page points at stylesheet i
StylesheetUrls(p) == [i \in 1..p.nLinks |-> i]

\* $('link[href*="fonts.googleapis.com"]')
GoogleLinks(p) == IF p.kind = "styled" THEN <<GoogleHref>> ELSE <<>>

\* the body the server returns for stylesheet i
SheetText(i) ==
  CASE i = 1 -> [parses |-> TRUE,
                 decls |-> <<Decl("color", "rgb(0, 0, 204)")>>,
                 fontFaces |-> <<>>]
    [] i = 2 -> [parses |-> FALSE,
                 decls |-> <<Decl("font-family", "Georgia, serif"),
                             Decl("outline-color", "#f65625")>>,
                 fontFaces |-> <<[family |-> "Fira Code", weight |-> "400",
                                  src |-> "url(fira.woff2)"]>>]
    [] i = 3 -> [parses |-> TRUE,
                 decls |-> <<Decl("color", "#ff0000"),
                             Decl("background-image", RadialCss)>>,
                 fontFaces |-> <<>>]
    [] i = 4 -> [parses |-> TRUE,
                 decls |-> <<Decl("--brand-color", "#1e3a8a"),
                             Decl("--font-size", "16px")>>,
                 fontFaces |-> <<>>]
    [] i = 5 -> [parses |-> TRUE,
                 decls |-> <<Decl("font-family", "'Inter', sans-serif"),
                             Decl("font-family", "Arial")>>,
                 fontFaces |-> <<>>]
    [] OTHER -> [parses |-> TRUE,
                 decls |-> <<Decl("color", "#00aa00")>>,
                 fontFaces |-> <<>>]

(***************************************************************************)
(* collectCSSData, in its two synchronous halves around the await.         *)
(***************************************************************************)
\* steps 1 and 2: inline styles, then <style> tags
CollectLocal(p) ==
  ParseAll(StyleBlocks(p), ParseAllInline(InlineStyles(p), EmptyCSSData))

\* stylesheetUrls.slice(0, MaxStylesheets): the stylesheets that are fetched
FetchedUrls(p) == Slice0(StylesheetUrls(p), MaxStylesheets)

\* after Promise.all: parse the bodies that loaded, in link order, then the
\* Google Fonts links.  res[i] is the outcome of fetch i.
\* mutant: one failed fetch loses every stylesheet
LoadedTexts_AllOrNothing(urls, res) ==
  IF \E i \in DOMAIN urls : res[i] # "ok" THEN <<>>
  ELSE [k \in DOMAIN urls |-> SheetText(urls[k])]

\* mutant: the bodies are parsed last link first
LoadedTexts_LastFirst(urls, res) ==
  LET ok == SelectSeq([i \in DOMAIN urls |-> i], LAMBDA i : res[i] = "ok")
  IN [k \in DOMAIN ok |-> SheetText(urls[ok[Len(ok) + 1 - k]])]

LoadedTexts(urls, res) ==
  LET ok == SelectSeq([i \in DOMAIN urls |-> i], LAMBDA i : res[i] = "ok")
  IN [k \in DOMAIN ok |-> SheetText(urls[ok[k]])]

CollectRemote(p, res, cssData) ==
  ExtractAllGoogleFonts(GoogleLinks(p),
    ParseAll(LoadedTexts(FetchedUrls(p), res), cssData))

(***************************************************************************)
(* Vision and LLM responses, and what the code makes of them.              *)
(***************************************************************************)
NoResult == [present |-> FALSE, colors |-> <<>>, gradients |-> <<>>, fonts |-> <<>>]

\* the hexes a vision response lists, longest case
VisionRawPool ==
  <<"#FF0000", "#f00", "#1e3a8a", "#028393", "#f65625", "#7c3aed", "#0ea5e9",
    "#333333", "#00aa00", "#0000cc">>

VisionFontOptions ==
  {<<>>,
   <<[family |-> "Inter", category |-> ""]>>,
   <<[family |-> "Georgia, serif", category |-> "slab-serif"]>>}

VisionGradientOptions ==
  {<<>>,
   <<[css |-> "linear-gradient(90deg, #ff0000, #0000cc)", type |-> "", angle |-> 90]>>}

\* the parsed JSON of a well-formed vision response
VisionResponses ==
  [colors : {SubSeq(VisionRawPool, 1, n) : n \in 0..MaxVisionRaw},
   fonts : VisionFontOptions,
   gradients : VisionGradientOptions]

\* part_004 lines 192-214
TransformVision(parsed) ==
  [present |-> TRUE,
   colors |-> SelectSeq(parsed.colors, VisionHexOk),
   fonts |-> [i \in DOMAIN parsed.fonts |->
                [family |-> parseFontFamily(parsed.fonts[i].family),
                 variants |-> <<"400", "700">>,
                 category |-> IF parsed.fonts[i].category # ""
                              THEN parsed.fonts[i].category
                              ELSE categorizeFont(parsed.fonts[i].family),
                 source |-> "vision-detected"]],
   gradients |-> [i \in DOMAIN parsed.gradients |->
                    [css |-> parsed.gradients[i].css,
                     type |-> IF parsed.gradients[i].type # ""
                              THEN parsed.gradients[i].type ELSE "linear",
                     angle |-> parsed.gradients[i].angle]]]

\* a JSON value that is an array, or a string of the given length
JsArray(items) == [kind |-> "array", items |-> items, length |-> Len(items)]
JsString(n) == [kind |-> "string", items |-> <<>>, length |-> n]

\* the parsed JSON of an LLM response whose content parses
LLMResponses ==
  [suggestedColors : {JsArray(<<>>),
                      JsArray(<<"#f00", "notacolor", "#ff0000", "#1e3a8a">>),
                      JsArray(<<"#028393", "#333333", "#7c3aed">>),
                      JsString(7)},
   suggestedFonts : {<<>>,
                     <<[family |-> "Inter", category |-> ""],
                       [family |-> "'Inter', sans-serif", category |-> "display"]>>}]

EmptyInterpretation == [suggestedColors |-> JsArray(<<>>), suggestedFonts |-> <<>>]

\* part_004 lines 889-898: the value interpretBrandAssetsWithLLM returns
InterpretResult(parsed) ==
  [suggestedColors |-> parsed.suggestedColors,
   suggestedFonts |-> [i \in DOMAIN parsed.suggestedFonts |->
                         [family |-> parseFontFamily(parsed.suggestedFonts[i].family),
                          variants |-> <<"400", "700">>,
                          category |-> IF parsed.suggestedFonts[i].category # ""
                                       THEN parsed.suggestedFonts[i].category
                                       ELSE categorizeFont(parsed.suggestedFonts[i].family),
                          source |-> "AI-suggested"]]]

(***************************************************************************)
(* The merge of extractBrandAssets (part_004 lines 262-301).               *)
(***************************************************************************)
HasFamily(fonts, f) == \E i \in DOMAIN fonts : fonts[i].family = f.family

\* colors.length < 3 || fonts.length < 1
NeedsFallback(cs, fs) == Len(cs) < ColorThreshold \/ Len(fs) < FontThreshold

\* mutant: the LLM is asked whenever a key is set
NeedsLLM_Always(cs, fs, key) == key

\* mutant: the LLM is asked without looking at the key
NeedsLLM_NoKey(cs, fs, key) == Len(cs) < ColorThreshold \/ Len(fs) < FontThreshold

\* (colors.length < 3 || fonts.length < 1) && process.env.OPENAI_API_KEY
NeedsLLM(cs, fs, key) == NeedsFallback(cs, fs) /\ key

\* mutant: the collector's colours replace the accepted ones
MergeCssColors_Replace(cs, cssColors) ==
  IF Len(cs) < ColorThreshold THEN cssColors ELSE cs

\* mutant: the collector's colours are appended whatever was accepted
MergeCssColors_Always(cs, cssColors) ==
  cs \o SelectSeq(cssColors, LAMBDA c : ~Includes(cs, c))

MergeCssColors(cs, cssColors) ==
  IF Len(cs) < ColorThreshold
  THEN cs \o SelectSeq(cssColors, LAMBDA c : ~Includes(cs, c))
  ELSE cs

MergeCssGradients(gs, cssGradients) == IF gs = <<>> THEN cssGradients ELSE gs

\* mutant: the collector's fonts are appended whatever was accepted
MergeCssFonts_Always(fs, cssFonts) ==
  fs \o SelectSeq(cssFonts, LAMBDA f : ~HasFamily(fs, f))

MergeCssFonts(fs, cssFonts) ==
  IF Len(fs) < FontThreshold
  THEN fs \o SelectSeq(cssFonts, LAMBDA f : ~HasFamily(fs, f))
  ELSE fs

\* suggestedColors.map(parseColor).filter(c => c !== null).map(c => c.hex)
ValidLLMColors(items) ==
  SelectSeq([i \in DOMAIN items |-> parseColorHex(items[i])],
            LAMBDA h : h # NoColor)

MergeLLMColors(cs, items) ==
  cs \o SelectSeq(ValidLLMColors(items), LAMBDA c : ~Includes(cs, c))

MergeLLMFonts(fs, suggested) ==
  fs \o SelectSeq(suggested, LAMBDA f : ~HasFamily(fs, f))

\* isOpenAIAvailable(): !!process.env.OPENAI_API_KEY
isOpenAIAvailable(key) == key

\* generateGradientsWithAI posts only past its own if (!apiKey) return fallback
GradientsApiKey(key) == key

\* callOpenAI posts only past its own if (!apiKey) throw
callOpenAIKey(key) == key

\* the LLM colour step: true when suggestedColors.map is not a function
LLMColorsThrow(cs, sc) ==
  sc.length > 0 /\ Len(cs) < ColorThreshold /\ sc.kind # "array"

LLMColorsStep(cs, sc) ==
  IF sc.length > 0 /\ Len(cs) < ColorThreshold
  THEN MergeLLMColors(cs, sc.items) ELSE cs

LLMFontsStep(fs, suggested) ==
  IF Len(suggested) > 0 /\ Len(fs) < FontThreshold
  THEN MergeLLMFonts(fs, suggested) ELSE fs

(***************************************************************************)
(* Colours as numbers (src/lib/utils/color.ts over chroma-js).  A colour   *)
(* string that chroma accepts is the three channels its hex form writes;   *)
(* chroma's real-valued results are exact fractions here.                  *)
(***************************************************************************)
Hex(r, g, b) == [ok |-> TRUE, r |-> r, g |-> g, b |-> b]
\* a string chroma rejects
NotAColor == [ok |-> FALSE, r |-> 0, g |-> 0, b |-> 0]

Max2(a, b) == IF a >= b THEN a ELSE b
Min2(a, b) == IF a <= b THEN a ELSE b
\* Math.round(n / d) for n >= 0, d > 0
Round(n, d) == (2 * n + d) \div (2 * d)

\* chroma(c).hsl(): the hue as sixths of a turn over the chroma d
\* (NaN, read as 0 by "h || 0", when d = 0), saturation and lightness as
\* fractions
HslOf(v) ==
  LET mx == Max2(v.r, Max2(v.g, v.b))
      mn == Min2(v.r, Min2(v.g, v.b))
      d == mx - mn
      raw == IF v.r = mx THEN v.g - v.b
             ELSE IF v.g = mx THEN 2 * d + (v.b - v.r)
             ELSE 4 * d + (v.r - v.g)
  IN [hn |-> IF d = 0 THEN 0 ELSE IF raw < 0 THEN raw + 6 * d ELSE raw,
      hd |-> IF d = 0 THEN 1 ELSE d,
      sn |-> d,
      sd |-> IF d = 0 THEN 1 ELSE IF mx + mn < 255 THEN mx + mn ELSE 510 - mx - mn,
      ln |-> mx + mn,
      ld |-> 510]

NullColor == [hex |-> NotAColor, rgb |-> [r |-> 0, g |-> 0, b |-> 0],
              hsl |-> [h |-> 0, s |-> 0, l |-> 0]]

\* parseColor: null when chroma throws, else hex, rgb and the rounded hsl
parseColor(v) ==
  IF ~v.ok THEN NullColor
  ELSE LET x == HslOf(v)
       IN [hex |-> v,
           rgb |-> [r |-> v.r, g |-> v.g, b |-> v.b],
           hsl |-> [h |-> Round(60 * x.hn, x.hd),
                    s |-> Round(100 * x.sn, x.sd),
                    l |-> Round(100 * x.ln, x.ld)]]

\* Exact fractions n / d with d > 0, kept in lowest terms.
RECURSIVE Gcd(_, _)
Gcd(a, b) == IF b = 0 THEN a ELSE Gcd(b, a % b)
Abs(n) == IF n < 0 THEN -n ELSE n
Q(n, d) == LET g == Gcd(Abs(n), d) IN [n |-> n \div g, d |-> d \div g]
QAdd(a, b) ==
  LET g == Gcd(a.d, b.d)
  IN Q(a.n * (b.d \div g) + b.n * (a.d \div g), (a.d \div g) * b.d)
QNeg(a) == [n |-> -a.n, d |-> a.d]
QSub(a, b) == QAdd(a, QNeg(b))
QMul(a, b) ==
  LET g1 == Gcd(Abs(a.n), b.d)
      g2 == Gcd(Abs(b.n), a.d)
  IN [n |-> (a.n \div g1) * (b.n \div g2), d |-> (a.d \div g2) * (b.d \div g1)]
QLess(a, b) == QSub(a, b).n < 0
QMin(a, b) == IF QLess(b, a) THEN b ELSE a
QRound(a) == Round(a.n, a.d)

\* one channel of chroma's hsl-to-rgb at the hue offset t3
Channel(t1, t2, t) ==
  LET t3 == IF t.n < 0 THEN QAdd(t, Q(1, 1))
            ELSE IF QLess(Q(1, 1), t) THEN QSub(t, Q(1, 1)) ELSE t
      span == QSub(t2, t1)
  IN IF QLess(QMul(Q(6, 1), t3), Q(1, 1))
       THEN QAdd(t1, QMul(span, QMul(Q(6, 1), t3)))
     ELSE IF QLess(QMul(Q(2, 1), t3), Q(1, 1)) THEN t2
     ELSE IF QLess(QMul(Q(3, 1), t3), Q(2, 1))
       THEN QAdd(t1, QMul(span, QMul(Q(6, 1), QSub(Q(2, 3), t3))))
     ELSE t1

\* chroma.hsl(h, s, l).hex(): h in degrees, s and l in 0..1, all fractions;
\* hex() rounds each channel
HslToHex(h, s, l) ==
  IF s.n = 0
  THEN LET v == QRound(QMul(Q(255, 1), l)) IN Hex(v, v, v)
  ELSE LET t2 == IF QLess(l, Q(1, 2)) THEN QMul(l, QAdd(Q(1, 1), s))
                 ELSE QSub(QAdd(l, s), QMul(l, s))
           t1 == QSub(QMul(Q(2, 1), l), t2)
           h_ == QMul(h, Q(1, 360))
           c(t) == QRound(QMul(Q(255, 1), Channel(t1, t2, t)))
       IN Hex(c(QAdd(h_, Q(1, 3))), c(h_), c(QSub(h_, Q(1, 3))))

\* the real-valued [h, s, l] of base.hsl(), with "h || 0"
RealHsl(v) ==
  LET x == HslOf(v)
  IN [h |-> Q(60 * x.hn, x.hd), s |-> Q(x.sn, x.sd), l |-> Q(x.ln, x.ld)]

\* the adjustments table of generateShadeScale, in hundredths
ShadeKeys == <<50, 100, 200, 300, 400, 500, 600, 700, 800, 900, 950>>
Adjustments ==
  <<[l |-> 97, s |-> 70], [l |-> 93, s |-> 80], [l |-> 85, s |-> 85],
    [l |-> 70, s |-> 90], [l |-> 55, s |-> 95], [l |-> 45, s |-> 100],
    [l |-> 35, s |-> 105], [l |-> 25, s |-> 108], [l |-> 18, s |-> 110],
    [l |-> 12, s |-> 112], [l |-> 6, s |-> 115]>>

\* generateShadeScale with each target lightness taken relative to the base's
generateShadeScale_Relative(baseColor) ==
  LET x == RealHsl(baseColor.hex)
      shade(k) ==
        LET finalS == QMin(Q(1, 1), QMul(x.s, Q(Adjustments[k].s, 100)))
            finalL == QMin(Q(1, 1), QMul(x.l, Q(Adjustments[k].l, 45)))
        IN parseColor(HslToHex(x.h, finalS, finalL))
  IN [shades |-> [k \in DOMAIN ShadeKeys |-> shade(k)], base |-> baseColor]

\* generateShadeScale: the shades in key order, and the base slot
generateShadeScale(baseColor) ==
  LET x == RealHsl(baseColor.hex)
      shade(k) ==
        LET finalS == QMin(Q(1, 1), QMul(x.s, Q(Adjustments[k].s, 100)))
            finalL == Q(Adjustments[k].l, 100)
        IN parseColor(HslToHex(x.h, finalS, finalL))
  IN [shades |-> [k \in DOMAIN ShadeKeys |-> shade(k)], base |-> baseColor]

\* Array.prototype.reverse
Reverse(xs) == [i \in DOMAIN xs |-> xs[Len(xs) + 1 - i]]

\* generateNeutralScale without the final reverse()
generateNeutralScale_NoReverse(baseColor, steps) ==
  LET hue == Q(baseColor.hsl.h, 1)
      step(i) ==
        LET lightness == QAdd(QMul(Q(i, steps - 1), Q(95, 1)), Q(5, 2))
            saturation == Q(Max2(0, 10 - i), 2)
        IN parseColor(HslToHex(hue, QMul(saturation, Q(1, 100)),
                               QMul(lightness, Q(1, 100))))
      scale == [j \in 1..steps |-> step(j - 1)]
  IN SelectSeq(scale, LAMBDA c : c.hex.ok)

\* generateNeutralScale(baseColor, steps): lightness (i / (steps - 1)) * 95 + 2.5
\* and saturation max(0, 5 - i * 0.5), both in percent, for i = 0 .. steps - 1
generateNeutralScale(baseColor, steps) ==
  LET hue == Q(baseColor.hsl.h, 1)
      step(i) ==
        LET lightness == QAdd(QMul(Q(i, steps - 1), Q(95, 1)), Q(5, 2))
            saturation == Q(Max2(0, 10 - i), 2)
        IN parseColor(HslToHex(hue, QMul(saturation, Q(1, 100)),
                               QMul(lightness, Q(1, 100))))
      scale == [j \in 1..steps |-> step(j - 1)]
  IN Reverse(SelectSeq(scale, LAMBDA c : c.hex.ok))

(***************************************************************************)
(* buildColorPalette (src/lib/utils/color.ts lines 172-236).               *)
(***************************************************************************)
\* the default bases: navy #1e3a8a, teal #028393, coral #f65625
Navy == Hex(30, 58, 138)
Teal == Hex(2, 131, 147)
Coral == Hex(246, 86, 37)
\* further colours the palette builder is tried on
Blue == Hex(30, 64, 175)
Red == Hex(255, 0, 0)
Green == Hex(0, 170, 0)
GhostWhite == Hex(248, 248, 255)

\* chroma.deltaE (CIEDE2000) between these colours, in hundredths
DeltaPool == <<Navy, Teal, Coral, Blue, Red, Green>>
DeltaTable ==
  <<<<0, 3172, 5325, 543, 5096, 6447>>,
    <<3172, 0, 5055, 3081, 5294, 3919>>,
    <<5325, 5055, 0, 5320, 740, 6829>>,
    <<543, 3081, 5320, 0, 5099, 6583>>,
    <<5096, 5294, 740, 5099, 0, 7653>>,
    <<6447, 3919, 6829, 6583, 7653, 0>>>>
deltaE(a, b) ==
  DeltaTable[CHOOSE i \in DOMAIN DeltaPool : DeltaPool[i] = a]
            [CHOOSE j \in DOMAIN DeltaPool : DeltaPool[j] = b]

\* the c.hsl.l > 10 && c.hsl.l < 90 filter
Usable(c) == c.hex.ok /\ c.hsl.l > MinLightness /\ c.hsl.l < MaxLightness

\* clusterColors: each colour joins the first cluster whose first member is
\* nearer than the threshold, else opens a cluster
RECURSIVE Clusters(_, _, _)
Clusters(cs, clusters, threshold) ==
  IF cs = <<>> THEN clusters
  ELSE LET color == Head(cs)
           near == {k \in DOMAIN clusters :
                      deltaE(color.hex, clusters[k][1].hex) < 100 * threshold}
           first == CHOOSE k \in near : \A m \in near : k <= m
       IN Clusters(Tail(cs),
                   IF near = {} THEN Append(clusters, <<color>>)
                   ELSE [clusters EXCEPT ![first] = Append(@, color)],
                   threshold)

\* cluster.reduce((best, current) => current.hsl.s > best.hsl.s ? current : best)
RECURSIVE MostSaturated(_, _)
MostSaturated(best, rest) ==
  IF rest = <<>> THEN best
  ELSE MostSaturated(IF Head(rest).hsl.s > best.hsl.s THEN Head(rest) ELSE best,
                     Tail(rest))

clusterColors(cs, threshold) ==
  LET clusters == Clusters(cs, <<>>, threshold)
  IN [k \in DOMAIN clusters |-> MostSaturated(Head(clusters[k]), Tail(clusters[k]))]

\* the cluster representatives left in input order
SortBySaturation_None(cs) == cs

\* [...uniqueColors].sort((a, b) => b.hsl.s - a.hsl.s), a stable sort
RECURSIVE SortBySaturation(_)
SortBySaturation(cs) ==
  IF cs = <<>> THEN <<>>
  ELSE LET top == CHOOSE i \in DOMAIN cs :
                    \A j \in DOMAIN cs :
                      \/ cs[i].hsl.s > cs[j].hsl.s
                      \/ cs[i].hsl.s = cs[j].hsl.s /\ i <= j
       IN <<cs[top]>> \o SortBySaturation(SubSeq(cs, 1, top - 1)
                                            \o SubSeq(cs, top + 1, Len(cs)))

\* xs.find(P) || fallback
FindOr(xs, P(_), fallback) ==
  LET hits == {i \in DOMAIN xs : P(xs[i])}
  IN IF hits = {} THEN fallback
     ELSE xs[CHOOSE i \in hits : \A j \in hits : i <= j]

\* the role bases with no default behind the primary pick
RoleBases_NoDefault(extractedColors) ==
  LET parsed == [i \in DOMAIN extractedColors |-> parseColor(extractedColors[i])]
      parsedColors == SelectSeq(parsed, Usable)
      uniqueColors == clusterColors(parsedColors, ClusterThreshold)
      sortedBySaturation == SortBySaturation(uniqueColors)
      primaryBase == IF sortedBySaturation # <<>> THEN sortedBySaturation[1]
                     ELSE NullColor
      secondaryBase ==
        FindOr(sortedBySaturation,
               LAMBDA c : deltaE(c.hex, primaryBase.hex) > 100 * SecondaryDistance,
               parseColor(Teal))
      accentBase ==
        FindOr(sortedBySaturation,
               LAMBDA c : /\ deltaE(c.hex, primaryBase.hex) > 100 * AccentDistance
                          /\ deltaE(c.hex, secondaryBase.hex) > 100 * AccentSecondaryDistance,
               parseColor(Coral))
  IN [primary |-> primaryBase, secondary |-> secondaryBase, accent |-> accentBase]

\* the role bases with the accent tested against the primary base only
RoleBases_AccentNearSecondary(extractedColors) ==
  LET parsed == [i \in DOMAIN extractedColors |-> parseColor(extractedColors[i])]
      parsedColors == SelectSeq(parsed, Usable)
      uniqueColors == clusterColors(parsedColors, ClusterThreshold)
      sortedBySaturation == SortBySaturation(uniqueColors)
      primaryBase == IF sortedBySaturation # <<>> THEN sortedBySaturation[1]
                     ELSE parseColor(Navy)
      secondaryBase ==
        FindOr(sortedBySaturation,
               LAMBDA c : deltaE(c.hex, primaryBase.hex) > 100 * SecondaryDistance,
               parseColor(Teal))
      accentBase ==
        FindOr(sortedBySaturation,
               LAMBDA c : deltaE(c.hex, primaryBase.hex) > 100 * AccentDistance,
               parseColor(Coral))
  IN [primary |-> primaryBase, secondary |-> secondaryBase, accent |-> accentBase]

\* the three role bases buildColorPalette picks
RoleBases(extractedColors) ==
  LET parsed == [i \in DOMAIN extractedColors |-> parseColor(extractedColors[i])]
      parsedColors == SelectSeq(parsed, Usable)
      uniqueColors == clusterColors(parsedColors, ClusterThreshold)
      sortedBySaturation == SortBySaturation(uniqueColors)
      primaryBase == IF sortedBySaturation # <<>> THEN sortedBySaturation[1]
                     ELSE parseColor(Navy)
      secondaryBase ==
        FindOr(sortedBySaturation,
               LAMBDA c : deltaE(c.hex, primaryBase.hex) > 100 * SecondaryDistance,
               parseColor(Teal))
      accentBase ==
        FindOr(sortedBySaturation,
               LAMBDA c : /\ deltaE(c.hex, primaryBase.hex) > 100 * AccentDistance
                          /\ deltaE(c.hex, secondaryBase.hex) > 100 * AccentSecondaryDistance,
               parseColor(Coral))
  IN [primary |-> primaryBase, secondary |-> secondaryBase, accent |-> accentBase]

generateSemanticColors ==
  [success |-> parseColor(Hex(34, 197, 94)), error |-> parseColor(Hex(239, 68, 68)),
   warning |-> parseColor(Hex(245, 158, 11)), info |-> parseColor(Hex(59, 130, 246))]

buildColorPalette(extractedColors) ==
  LET bases == RoleBases(extractedColors)
  IN [primary |-> generateShadeScale(bases.primary),
      secondary |-> generateShadeScale(bases.secondary),
      accent |-> generateShadeScale(bases.accent),
      neutral |-> generateNeutralScale(bases.primary, NeutralSteps),
      utility |-> <<parseColor(Hex(250, 170, 104)), parseColor(Hex(152, 193, 217)),
                    parseColor(Hex(61, 90, 128))>>,
      semantic |-> generateSemanticColors]

(***************************************************************************)
(* buildTypography (src/lib/utils/typography.ts lines 206-229).            *)
(***************************************************************************)
Font(family, category, variants) ==
  [family |-> family, category |-> category, variants |-> variants]

\* the four picks of buildTypography, each the first detected font that
\* passes its test, else a fixed default
buildTypography(detectedFonts) ==
  LET headlines ==
        FindOr(detectedFonts,
               LAMBDA f : f.category = "serif" \/ f.category = "display",
               Font("Palatino Linotype", "serif", <<"400", "700">>))
      subheadings ==
        FindOr(detectedFonts,
               LAMBDA f : f.category = "sans-serif" /\ f.family # headlines.family,
               Font("Montserrat", "sans-serif", <<"500", "600">>))
      body ==
        FindOr(detectedFonts,
               LAMBDA f : f.category = "sans-serif" /\ f.family # subheadings.family,
               Font("PT Sans", "sans-serif", <<"400", "700">>))
      code ==
        FindOr(detectedFonts,
               LAMBDA f : f.category = "monospace",
               Font("IBM Plex Mono", "monospace", <<"400">>))
  IN [headlines |-> headlines, subheadings |-> subheadings, body |-> body,
      code |-> code]

(***************************************************************************)
(* State.                                                                  *)
(***************************************************************************)
VARIABLES
  firecrawlKey,   \* process.env.FIRECRAWL_API_KEY is set
  openaiKey,      \* process.env.OPENAI_API_KEY is set
  pc,             \* where buildBrandKit / extractBrandAssets stands
  htmlRes,        \* the primary fetch(url)
  shot,           \* the promise of captureScreenshot(url)
  page,           \* the parsed HTML
  visionResult,   \* what extractBrandAssetsWithVision returned
  colors,         \* extractBrandAssets' colors
  gradients,      \* extractBrandAssets' gradients
  fonts,          \* extractBrandAssets' fonts
  cssData,        \* collectCSSData's accumulator
  sheetRes,       \* the stylesheet fetches, in link order
  css,            \* cssColors, cssGradients, cssFonts
  afterCss,       \* lengths of colors and fonts once the collector merged
  llmResults,     \* what interpretBrandAssetsWithLLM returned
  reply,          \* the OpenAI request(s) the current await waits for
  sent,           \* the external requests issued so far
  kit,            \* the sections of the brand kit built so far
  call,           \* one call of a utility function: its argument and result
  generationSteps, \* the GenerationStep rows of one brand kit
  onProgress      \* the events buildBrandKit's progress callback received

vars ==
  <<firecrawlKey, openaiKey, pc, htmlRes, shot, page, visionResult, colors,
    gradients, fonts, cssData, sheetRes, css, afterCss, llmResults, reply,
    sent, kit, call, generationSteps, onProgress>>

env == <<firecrawlKey, openaiKey>>
build ==
  <<firecrawlKey, openaiKey, pc, htmlRes, shot, page, visionResult, colors,
    gradients, fonts, cssData, sheetRes, css, afterCss, llmResults, reply,
    sent, kit, onProgress>>
extraction == <<visionResult, colors, gradients, fonts>>
collector == <<cssData, sheetRes, css, afterCss>>
fetches == <<htmlRes, shot, page>>

Analyses == {"archetype", "dimensions", "tone"}

NoCss == [ran |-> FALSE, colors |-> <<>>, gradients |-> <<>>, fonts |-> <<>>]
NoLens == [colors |-> 0, fonts |-> 0]
NoInterpretation == [called |-> FALSE, suggestedColors |-> JsArray(<<>>),
                     suggestedFonts |-> <<>>]
EmptyKit == [colors |-> "", gradients |-> "", typography |-> "",
             personality |-> "", voice |-> ""]

\* the providers behind each kind of request
OpenAIRequests ==
  {"vision", "llm", "gradients", "archetype", "dimensions", "tone", "voice"}
Request(kind) == [kind |-> kind, n |-> 0]
SheetRequest(i) == [kind |-> "stylesheet", n |-> i]
SentKinds(reqs) == {r.kind : r \in reqs}

\* no utility call is being followed
NoCall == [fn |-> "none", arg |-> <<>>, out |-> <<>>, done |-> FALSE]

\* a build that has not started
BuildIdle ==
  /\ pc = "start"
  /\ htmlRes = "none"
  /\ shot = "none"
  /\ page = NoPage
  /\ visionResult = NoResult
  /\ colors = <<>>
  /\ gradients = <<>>
  /\ fonts = <<>>
  /\ cssData = EmptyCSSData
  /\ sheetRes = <<>>
  /\ css = NoCss
  /\ afterCss = NoLens
  /\ llmResults = NoInterpretation
  /\ reply = "none"
  /\ sent = {}
  /\ kit = EmptyKit
  /\ onProgress = <<>>

Init ==
  /\ call = NoCall
  /\ generationSteps = <<>>
  /\ firecrawlKey \in BOOLEAN
  /\ openaiKey \in BOOLEAN
  /\ BuildIdle

\* progress(stage, progressPercent, message): onProgress?.({stage, progress})
\* mutant: a failure is not reported
progress_NoError(events, stage, progressPercent) ==
  IF stage = "error" THEN events
  ELSE Append(events, [stage |-> stage, progress |-> progressPercent])

progress(events, stage, progressPercent) ==
  Append(events, [stage |-> stage, progress |-> progressPercent])

\* the catch around extractBrandAssets: progress('error', 0, ...); throw error
Rethrow(events) == progress(events, "error", 0)

\* buttons, heroes, tokens, and the compiled kit
Finish(events) ==
  progress(progress(progress(progress(events,
    "generating-tokens", 82), "generating-tokens", 85),
    "generating-tokens", 88), "complete", 100)

\* at most one external resource never answers
NothingHung ==
  /\ htmlRes # "hung"
  /\ shot # "hung"
  /\ reply # "hung"
  /\ \A i \in DOMAIN sheetRes : sheetRes[i] # "hung"

(***************************************************************************)
(* extractBrandAssets: Promise.all([captureScreenshot(url), fetch(url)])   *)
(***************************************************************************)
\* buildBrandKit up to the first await of extractBrandAssets: captureScreenshot
\* returns null at once without FIRECRAWL_API_KEY, else posts to Firecrawl
StartBuild ==
  /\ pc = "start"
  /\ pc' = "await_fetch"
  /\ onProgress' = progress(progress(onProgress, "initializing", 0),
                          "extracting-colors", 10)
  /\ htmlRes' = "pending"
  /\ shot' = IF firecrawlKey THEN "pending" ELSE "null"
  /\ sent' = sent \cup {Request("html")}
              \cup (IF firecrawlKey THEN {Request("screenshot")} ELSE {})
  /\ UNCHANGED <<call, generationSteps, env, page, extraction, collector, llmResults, reply, kit>>

\* the Firecrawl response: failure, no screenshot, a data: URL, or an image URL
\* that captureScreenshot then fetches
ScreenshotApiRespond ==
  /\ shot = "pending"
  /\ \E out \in {"neterr", "http_error", "no_screenshot", "data_url", "image_url"} :
       /\ shot' = CASE out = "data_url" -> "data"
                    [] out = "image_url" -> "image_pending"
                    [] OTHER -> "null"
       /\ sent' = IF out = "image_url" THEN sent \cup {Request("screenshot-image")} ELSE sent
  /\ UNCHANGED <<call, generationSteps, onProgress, env, pc, htmlRes, page, extraction, collector, llmResults, reply, kit>>

ScreenshotImageRespond ==
  /\ shot = "image_pending"
  /\ \E out \in {"ok", "http_error", "neterr"} :
       shot' = IF out = "ok" THEN "data" ELSE "null"
  /\ UNCHANGED <<call, generationSteps, onProgress, env, pc, htmlRes, page, extraction, collector, llmResults, reply, sent, kit>>

\* the response to fetch(url): a rejected fetch rejects Promise.all, hence
\* extractBrandAssets and buildBrandKit, at once
HtmlRespond ==
  /\ pc = "await_fetch"
  /\ htmlRes = "pending"
  /\ \/ /\ htmlRes' = "neterr"
        /\ pc' = "rejected"
        /\ page' = page
        /\ onProgress' = Rethrow(onProgress)
     \/ /\ htmlRes' = "http_error"
        /\ UNCHANGED <<pc, page, onProgress>>
     \/ /\ htmlRes' = "ok"
        /\ page' \in Pages
        /\ pc' = pc
        /\ onProgress' = onProgress
  /\ UNCHANGED <<call, generationSteps, env, shot, extraction, collector, llmResults, reply,
                 sent, kit>>

\* both promises settled: throw on a non-2xx status, else load the HTML and
\* call extractBrandAssetsWithVision when there is a screenshot
JoinFetch ==
  /\ pc = "await_fetch"
  /\ shot \in {"null", "data"}
  /\ htmlRes \in {"ok", "http_error"}
  /\ IF htmlRes = "http_error"
     THEN /\ pc' = "rejected"
          /\ onProgress' = Rethrow(onProgress)
          /\ UNCHANGED <<reply, sent>>
     ELSE IF shot = "data" /\ openaiKey
          THEN /\ pc' = "await_vision"
               /\ reply' = "pending"
               /\ sent' = sent \cup {Request("vision")}
               /\ onProgress' = onProgress
          ELSE pc' = "css_check" /\ UNCHANGED <<reply, sent, onProgress>>
  /\ UNCHANGED <<call, generationSteps, env, fetches, extraction, collector, llmResults, kit>>

\* the vision response: any failure yields null, a well-formed one is transformed
VisionRespond ==
  /\ pc = "await_vision"
  /\ reply = "pending"
  /\ reply' = "none"
  /\ pc' = "css_check"
  /\ \/ /\ \E out \in {"neterr", "http_error", "malformed_json", "bad_shape"} :
             visionResult' = NoResult
        /\ UNCHANGED <<colors, gradients, fonts>>
     \/ \E parsed \in VisionResponses :
          /\ visionResult' = TransformVision(parsed)
          /\ colors' = visionResult'.colors
          /\ gradients' = visionResult'.gradients
          /\ fonts' = visionResult'.fonts
  /\ UNCHANGED <<call, generationSteps, onProgress, env, fetches, collector, llmResults, sent, kit>>

(***************************************************************************)
(* extractBrandAssets: the CSS fallback and the LLM interpretation         *)
(***************************************************************************)
\* if (colors.length < 3 || fonts.length < 1): collectCSSData parses the
\* inline styles and <style> tags and starts the stylesheet fetches;
\* otherwise extractBrandAssets returns
CssCheck ==
  /\ pc = "css_check"
  /\ IF NeedsFallback(colors, fonts)
     THEN /\ pc' = "await_sheets"
          /\ cssData' = CollectLocal(page)
          /\ sheetRes' = [i \in DOMAIN FetchedUrls(page) |-> "pending"]
          /\ sent' = sent \cup {SheetRequest(FetchedUrls(page)[i]) :
                                  i \in DOMAIN FetchedUrls(page)}
     ELSE /\ pc' = "extracted"
          /\ UNCHANGED <<cssData, sheetRes, sent>>
  /\ UNCHANGED <<call, generationSteps, onProgress, env, fetches, extraction, css, afterCss, llmResults, reply, kit>>

\* one stylesheet fetch settles: its body, or null on a network error or a
\* non-2xx status
SheetRespond(i) ==
  /\ pc = "await_sheets"
  /\ sheetRes[i] = "pending"
  /\ \E out \in {"ok", "fail"} : sheetRes' = [sheetRes EXCEPT ![i] = out]
  /\ UNCHANGED <<call, generationSteps, onProgress, env, pc, fetches, extraction, cssData, css, afterCss, llmResults,
                 reply, sent, kit>>

\* Promise.all(stylesheetPromises) resolved: parse, derive, merge, and ask the
\* LLM when the result is still limited and a key is set
SheetsJoin ==
  /\ pc = "await_sheets"
  /\ \A i \in DOMAIN sheetRes : sheetRes[i] \in {"ok", "fail"}
  /\ LET data == CollectRemote(page, sheetRes, cssData)
         cssColors == parseColorsFromCSS(data)
         cssGradients == parseGradientsFromCSS(data)
         cssFonts == parseFontsFromCSS(data)
         cs == MergeCssColors(colors, cssColors)
         gs == MergeCssGradients(gradients, cssGradients)
         fs == MergeCssFonts(fonts, cssFonts)
     IN /\ cssData' = data
        /\ css' = [ran |-> TRUE, colors |-> cssColors, gradients |-> cssGradients,
                   fonts |-> cssFonts]
        /\ colors' = cs
        /\ gradients' = gs
        /\ fonts' = fs
        /\ afterCss' = [colors |-> Len(cs), fonts |-> Len(fs)]
        /\ IF NeedsLLM(cs, fs, openaiKey)
           THEN /\ pc' = "await_llm"
                /\ reply' = "pending"
                /\ sent' = sent \cup {Request("llm")}
           ELSE /\ pc' = "extracted"
                /\ UNCHANGED <<reply, sent>>
  /\ UNCHANGED <<call, generationSteps, onProgress, env, fetches, visionResult, sheetRes, llmResults, kit>>

\* the LLM response: interpretBrandAssetsWithLLM catches every failure inside
\* it; its caller then merges the suggestions
LlmRespond ==
  /\ pc = "await_llm"
  /\ reply = "pending"
  /\ reply' = "none"
  /\ \E r \in {EmptyInterpretation} \cup {InterpretResult(parsed) : parsed \in LLMResponses} :
       /\ llmResults' = [called |-> TRUE, suggestedColors |-> r.suggestedColors,
                         suggestedFonts |-> r.suggestedFonts]
       /\ IF LLMColorsThrow(colors, r.suggestedColors)
          THEN /\ pc' = "rejected"
               /\ onProgress' = Rethrow(onProgress)
               /\ UNCHANGED <<colors, fonts>>
          ELSE /\ pc' = "extracted"
               /\ colors' = LLMColorsStep(colors, r.suggestedColors)
               /\ fonts' = LLMFontsStep(fonts, r.suggestedFonts)
               /\ onProgress' = onProgress
  /\ UNCHANGED <<call, generationSteps, env, fetches, visionResult, gradients, collector, sent, kit>>

(***************************************************************************)
(* buildBrandKit after the extraction                                      *)
(***************************************************************************)
\* buildColorPalette, generateHarmonies, then buildGradientPalette: the AI
\* request when isOpenAIAvailable(), else generateFallbackGradients.  The
\* locals of extractBrandAssets are gone; its result stays.
BuildPalette ==
  /\ pc = "extracted"
  /\ onProgress' = progress(progress(progress(onProgress,
                      "extracting-fonts", 30), "generating-palette", 50),
                      "generating-palette", 55)
  /\ page' = NoPage
  /\ visionResult' = NoResult
  /\ cssData' = EmptyCSSData
  /\ sheetRes' = <<>>
  /\ css' = NoCss
  /\ afterCss' = NoLens
  /\ llmResults' = NoInterpretation
  /\ IF isOpenAIAvailable(openaiKey) /\ GradientsApiKey(openaiKey)
     THEN /\ pc' = "await_gradients"
          /\ reply' = "pending"
          /\ sent' = sent \cup {Request("gradients")}
          /\ kit' = [kit EXCEPT !.colors = "palette"]
     ELSE /\ pc' = "personality"
          /\ kit' = [kit EXCEPT !.colors = "palette", !.gradients = "fallback"]
          /\ UNCHANGED <<reply, sent>>
  /\ UNCHANGED <<call, generationSteps, env, htmlRes, shot, colors, gradients, fonts>>

\* generateGradientsWithAI: the mapped response, the fallback on any failure
GradientsRespond ==
  /\ pc = "await_gradients"
  /\ reply = "pending"
  /\ reply' = "none"
  /\ pc' = "personality"
  /\ \E out \in {"ai", "fallback"} : kit' = [kit EXCEPT !.gradients = out]
  /\ UNCHANGED <<call, generationSteps, onProgress, env, fetches, extraction, collector, llmResults, sent>>

\* buildTypography, then buildBrandPersonalityEnhanced: three analyses at once,
\* each by AI when isOpenAIAvailable(), else by keywords; without a key the
\* keyword analyses and the template voice follow with no request at all
StartPersonality ==
  /\ pc = "personality"
  /\ IF isOpenAIAvailable(openaiKey) /\ callOpenAIKey(openaiKey)
     THEN /\ pc' = "await_personality"
          /\ reply' = "pending"
          /\ sent' = sent \cup {Request(a) : a \in Analyses}
          /\ kit' = [kit EXCEPT !.typography = "built"]
          /\ onProgress' = progress(progress(onProgress, "extracting-fonts", 60),
                                  "analyzing-personality", 70)
     ELSE /\ pc' = "done"
          /\ kit' = [kit EXCEPT !.typography = "built", !.personality = "keyword",
                                !.voice = "template"]
          /\ onProgress' = Finish(progress(progress(progress(onProgress,
                              "extracting-fonts", 60), "analyzing-personality", 70),
                              "analyzing-personality", 80))
          /\ UNCHANGED <<reply, sent>>
  /\ UNCHANGED <<call, generationSteps, env, fetches, extraction, collector, llmResults>>

\* Promise.all of the three analyses resolved, each with the AI answer or,
\* when its call or parsing threw, the keyword analysis; then
\* generateBrandVoiceEnhanced posts its request
PersonalityRespond ==
  /\ pc = "await_personality"
  /\ reply = "pending"
  /\ \E out \in [Analyses -> {"ai", "keyword"}] :
       kit' = [kit EXCEPT !.personality =
                 IF \A a \in Analyses : out[a] = "keyword" THEN "keyword"
                 ELSE IF \A a \in Analyses : out[a] = "ai" THEN "ai"
                 ELSE "mixed"]
  /\ pc' = "await_voice"
  /\ onProgress' = progress(onProgress, "analyzing-personality", 80)
  /\ reply' = "pending"
  /\ sent' = sent \cup {Request("voice")}
  /\ UNCHANGED <<call, generationSteps, env, fetches, extraction, collector, llmResults>>

\* generateBrandVoiceWithAI answered or threw; buttons, heroes, tokens, return
VoiceRespond ==
  /\ pc = "await_voice"
  /\ reply = "pending"
  /\ reply' = "none"
  /\ pc' = "done"
  /\ onProgress' = Finish(onProgress)
  /\ \E out \in {"ai", "template"} : kit' = [kit EXCEPT !.voice = out]
  /\ UNCHANGED <<call, generationSteps, env, fetches, extraction, collector, llmResults, sent>>

(***************************************************************************)
(* An external resource that never answers: no request carries a timeout   *)
(* or an abort signal, so its await never resumes.                         *)
(***************************************************************************)
HangHtml ==
  /\ NothingHung
  /\ pc = "await_fetch"
  /\ htmlRes = "pending"
  /\ htmlRes' = "hung"
  /\ UNCHANGED <<call, generationSteps, onProgress, env, pc, shot, page, extraction, collector, llmResults, reply, sent, kit>>

HangScreenshot ==
  /\ NothingHung
  /\ shot \in {"pending", "image_pending"}
  /\ shot' = "hung"
  /\ UNCHANGED <<call, generationSteps, onProgress, env, pc, htmlRes, page, extraction, collector, llmResults, reply, sent, kit>>

HangSheet(i) ==
  /\ NothingHung
  /\ pc = "await_sheets"
  /\ sheetRes[i] = "pending"
  /\ sheetRes' = [sheetRes EXCEPT ![i] = "hung"]
  /\ UNCHANGED <<call, generationSteps, onProgress, env, pc, fetches, extraction, cssData, css, afterCss, llmResults,
                 reply, sent, kit>>

HangOpenAI ==
  /\ NothingHung
  /\ reply = "pending"
  /\ reply' = "hung"
  /\ UNCHANGED <<call, generationSteps, onProgress, env, pc, fetches, extraction, collector, llmResults, sent, kit>>

Next ==
  \/ StartBuild
  \/ ScreenshotApiRespond
  \/ ScreenshotImageRespond
  \/ HtmlRespond
  \/ JoinFetch
  \/ VisionRespond
  \/ CssCheck
  \/ \E i \in 1..MaxStylesheets : i \in DOMAIN sheetRes /\ SheetRespond(i)
  \/ SheetsJoin
  \/ LlmRespond
  \/ BuildPalette
  \/ GradientsRespond
  \/ StartPersonality
  \/ PersonalityRespond
  \/ VoiceRespond
  \/ HangHtml
  \/ HangScreenshot
  \/ \E i \in 1..MaxStylesheets : i \in DOMAIN sheetRes /\ HangSheet(i)
  \/ HangOpenAI

Spec == Init /\ [][Next]_vars

(***************************************************************************)
(* Properties.                                                             *)
(***************************************************************************)
\* extractBrandAssets is running or has just returned: its locals are live
InExtraction ==
  pc \in {"await_fetch", "await_vision", "css_check", "await_sheets",
          "await_llm", "extracted"}

Extracted == pc = "extracted"

V == visionResult

\* the entries of s at positions from+1 .. to
Segment(s, from, to) == {s[i] : i \in {j \in DOMAIN s : from < j /\ j <= to}}

Families(fs) == {fs[i].family : i \in DOMAIN fs}

\* C1: every colour, gradient and font a vision result carries is in the
\* result of extractBrandAssets; the colors and fonts lists are the vision
\* entries, then collector entries, then LLM suggestions; and no step of the
\* build removes or replaces an entry that was accepted before it.
C1_SourceOrder ==
  InExtraction =>
    /\ IsPrefix(V.colors, colors)
    /\ IsPrefix(V.fonts, fonts)
    /\ Range(V.gradients) \subseteq Range(gradients)
    /\ css.ran =>
         /\ Len(V.colors) <= afterCss.colors /\ afterCss.colors <= Len(colors)
         /\ Len(V.fonts) <= afterCss.fonts /\ afterCss.fonts <= Len(fonts)
         /\ Segment(colors, Len(V.colors), afterCss.colors) \subseteq Range(css.colors)
         /\ Segment(fonts, Len(V.fonts), afterCss.fonts) \subseteq Range(css.fonts)
         /\ Segment(colors, afterCss.colors, Len(colors))
              \subseteq Range(ValidLLMColors(llmResults.suggestedColors.items))
         /\ Segment(fonts, afterCss.fonts, Len(fonts))
              \subseteq Range(llmResults.suggestedFonts)
    /\ ~css.ran => colors = V.colors /\ fonts = V.fonts

C1_NothingDropped ==
  /\ IsPrefix(colors, colors')
  /\ IsPrefix(fonts, fonts')
  /\ gradients # <<>> => gradients' = gradients

C1_VisionFirst == [](C1_SourceOrder) /\ [][C1_NothingDropped]_vars

\* C1 witness: a returned result holding vision, collector and LLM colours
C1_Witness ==
  /\ Extracted
  /\ V.present
  /\ 0 < Len(V.colors)
  /\ Len(V.colors) < afterCss.colors
  /\ afterCss.colors < Len(colors)

\* C2: the collector's colours are appended only below 3 vision colours, its
\* fonts only at 0 vision fonts, and LLM colours / fonts only when the list
\* merged so far still has fewer than 3 colours / 0 fonts.
C2_GapFillOnly ==
  (InExtraction /\ css.ran) =>
    /\ afterCss.colors > Len(V.colors) => Len(V.colors) < ColorThreshold
    /\ afterCss.fonts > Len(V.fonts) => Len(V.fonts) = 0
    /\ Len(colors) > afterCss.colors => afterCss.colors < ColorThreshold
    /\ Len(fonts) > afterCss.fonts => afterCss.fonts = 0

\* C2 witness: the collector filled the colour gap while its fonts were
\* turned away because vision had supplied one
C2_Witness ==
  /\ Extracted
  /\ css.ran
  /\ afterCss.colors > Len(V.colors)
  /\ Len(V.fonts) >= 1
  /\ css.fonts # <<>>
  /\ fonts = V.fonts

\* the case of C3: vision returned 5 colours and the collector yields 2
C3_Case ==
  /\ Extracted
  /\ V.present
  /\ Len(V.colors) = 5
  /\ css.ran
  /\ Len(css.colors) = 2

\* C3 as claimed: with 5 vision colours and 2 collector colours the result
\* holds the 5 vision colours plus every collector colour not among them, and
\* never fewer than 5.
C3_Original ==
  C3_Case =>
    /\ IsPrefix(V.colors, colors)
    /\ \A c \in Range(css.colors) :
         ~Includes(V.colors, c) => Includes(colors, c)
    /\ Len(colors) >= 5

\* C3 amended: with 5 vision colours and 2 collector colours the result's
\* colours are exactly the 5 vision colours; no collector colour is appended,
\* 5 being no fewer than the threshold of 3.
C3_VisionOnly == C3_Case => colors = V.colors

\* C3 witness: the case, with a collector colour that vision did not return
C3_Witness ==
  /\ C3_Case
  /\ \E c \in Range(css.colors) :
       \A i \in DOMAIN V.colors : ToLowerCase(V.colors[i]) # ToLowerCase(c)

\* the gradients the page's own CSS (style attributes and <style> blocks) holds
LocalGradients == parseGradientsFromCSS(CollectLocal(page))

\* C4: gradients have no threshold: the result's gradients are those of the
\* first non-empty source, vision then collector, whatever the number of
\* colours and fonts vision returned.
C4_FirstNonEmptyGradients ==
  Extracted =>
    /\ V.gradients # <<>> => gradients = V.gradients
    /\ (V.gradients = <<>> /\ LocalGradients # <<>>) =>
         /\ gradients # <<>>
         /\ Range(LocalGradients) \subseteq Range(gradients)

\* the source an entry at position k came from: 1 vision, 2 collector, 3 LLM
ColorStage(k) ==
  IF k <= Len(V.colors) THEN 1 ELSE IF k <= afterCss.colors THEN 2 ELSE 3

FontStage(k) ==
  IF k <= Len(V.fonts) THEN 1 ELSE IF k <= afterCss.fonts THEN 2 ELSE 3

\* C5: no entry appended from a lower-precedence source is the same colour
\* (hex compared without regard to letter case) or the same font family as an
\* entry accepted from an earlier source.
C5_NoDuplicateAppended ==
  (InExtraction /\ css.ran) =>
    /\ \A j \in DOMAIN colors : \A i \in 1..(j - 1) :
         ColorStage(i) < ColorStage(j) =>
           ToLowerCase(colors[i]) # ToLowerCase(colors[j])
    /\ \A j \in DOMAIN fonts : \A i \in 1..(j - 1) :
         FontStage(i) < FontStage(j) => fonts[i].family # fonts[j].family

Kinds == SentKinds(sent)

\* the collector under-delivered: fewer than 3 colours or no font
CollectorInsufficient ==
  css.ran /\ (Len(css.colors) < ColorThreshold \/ Len(css.fonts) < FontThreshold)

\* C6 as claimed: no request goes to the screenshot, vision or LLM provider
\* unless the collector has delivered fewer than 3 colours or 0 fonts and an
\* API credential is configured.
C6_Original ==
  InExtraction =>
    \A r \in sent :
      r.kind \in {"screenshot", "screenshot-image", "vision", "llm"} =>
        CollectorInsufficient /\ (openaiKey \/ firecrawlKey)

\* C6 amended: the screenshot request needs only FIRECRAWL_API_KEY and the
\* vision request only a captured screenshot and OPENAI_API_KEY, both before
\* the collector runs; the LLM interpretation request alone is an escalation:
\* it is sent only when the result merged from vision and collector has fewer
\* than 3 colours or 0 fonts and OPENAI_API_KEY is set.  With neither a vision
\* result nor an LLM request the result is exactly what the collector found.
C6_EscalateLLMOnly ==
  InExtraction =>
    /\ "screenshot" \in Kinds => firecrawlKey
    /\ "vision" \in Kinds => openaiKey /\ shot = "data" /\ htmlRes = "ok"
    /\ "llm" \in Kinds =>
         /\ openaiKey
         /\ css.ran
         /\ afterCss.colors < ColorThreshold \/ afterCss.fonts < FontThreshold
    /\ (Extracted /\ ~V.present /\ "llm" \notin Kinds) =>
         /\ css.ran
         /\ colors = css.colors
         /\ gradients = css.gradients
         /\ fonts = css.fonts

\* C6 witness: an extraction that asked the screenshot provider, the vision
\* model and, after the collector, the LLM
C6_Witness ==
  /\ Extracted
  /\ {"screenshot", "vision", "llm"} \subseteq Kinds
  /\ css.ran

HeuristicKit ==
  [colors |-> "palette", gradients |-> "fallback", typography |-> "built",
   personality |-> "keyword", voice |-> "template"]

\* C7: without OPENAI_API_KEY a build sends nothing to the LLM/vision
\* provider, fails only with the primary fetch, and returns a kit whose
\* palette, typography, gradients, personality and voice are all populated by
\* the heuristic and default paths.
C7_NoKeyNoLLM ==
  ~openaiKey =>
    /\ Kinds \cap OpenAIRequests = {}
    /\ pc = "done" => kit = HeuristicKit
    /\ pc = "rejected" => htmlRes \in {"neterr", "http_error"}

\* C7 witness: a finished build without the key whose collector result was
\* limited and whose screenshot was captured
C7_Witness ==
  /\ ~openaiKey
  /\ pc = "done"
  /\ shot = "data"
  /\ Len(colors) < ColorThreshold

\* C8: extractBrandAssets rejects only when the primary HTML fetch fails.
C8_RejectsOnlyOnPrimaryFetch ==
  pc = "rejected" => htmlRes \in {"neterr", "http_error"}

\* true when every signal in part is in whole
Contains(whole, part) ==
  /\ Range(part.colors) \subseteq Range(whole.colors)
  /\ Range(part.gradients) \subseteq Range(whole.gradients)
  /\ Families(part.fonts) \subseteq Families(whole.fonts)
  /\ {v.name : v \in Range(part.cssVariables)}
       \subseteq {v.name : v \in Range(whole.cssVariables)}

\* C9: at most 5 stylesheets are fetched, the first 5 links of the page, and
\* whichever of these fetches fail, the finished collection holds every signal
\* of the style attributes, the <style> blocks and the stylesheets that loaded.
C9_PartialCSS ==
  /\ \A r \in sent :
       r.kind = "stylesheet" =>
         r.n \in 1..MaxStylesheets /\ (InExtraction => r.n <= page.nLinks)
  /\ css.ran =>
       /\ Contains(cssData, CollectLocal(page))
       /\ \A i \in DOMAIN sheetRes :
            sheetRes[i] = "ok" =>
              Contains(cssData, parseCSS(SheetText(StylesheetUrls(page)[i]),
                                         EmptyCSSData))

\* C9 witness: a finished collection on a page with more than 5 links where
\* some fetched stylesheets failed and others loaded
C9_Witness ==
  /\ css.ran
  /\ page.nLinks > MaxStylesheets
  /\ \E i \in DOMAIN sheetRes : sheetRes[i] = "fail"
  /\ \E i \in DOMAIN sheetRes : sheetRes[i] = "ok"
  /\ cssData.colors # <<>>

\* the event loop resumes every continuation whose promise has settled, and
\* every response that is on its way arrives
FairSpec == Spec /\ WF_vars(Next)

\* C10: every external request carries its own timeout, so a build always
\* eventually completes or fails, even when an external resource never
\* responds.
C10_BuildTerminates == <>(pc \in {"done", "rejected"})

\* the fixed denylist of parseColorsFromCSS, up to letter case
Denylisted(c) == ToLowerCase(c) \in nonBrandColors

\* C11: the colour list extractBrandAssets returns never contains #ffffff,
\* #333333 or any other hex of the denylist (#000000, #666666, #999999,
\* #cccccc), whatever the page's CSS holds.
C11_NoDenylistedColor ==
  Extracted => \A i \in DOMAIN colors : ~Denylisted(colors[i])

(***************************************************************************)
(* The utility functions on their own: a behaviour is one call, its        *)
(* argument drawn from a bounded set, and the function's result.           *)
(***************************************************************************)
Call(fn, arg) == [fn |-> fn, arg |-> arg, out |-> <<>>, done |-> FALSE]
Return(out) == [call EXCEPT !.out = out, !.done = TRUE]
Returned(fn) == call.fn = fn /\ call.done

\* gradient strings: each function with no direction, a degree count, a side
\* keyword or a corner keyword, then two colour stops
Sides == {"right", "left", "bottom", "top"}
Corners ==
  {<<"top", "right">>, <<"bottom", "right">>, <<"bottom", "left">>, <<"top", "left">>,
   <<"right", "top">>, <<"right", "bottom">>, <<"left", "bottom">>, <<"left", "top">>}
Directions ==
  {<<>>} \cup {<<ToString(n), "deg">> : n \in 0..MaxDegree}
         \cup {<<"to", a>> : a \in Sides}
         \cup {<<"to", c[1], c[2]>> : c \in Corners}
GradientWords(fn, dir) ==
  <<fn, "(">> \o dir \o (IF dir = <<>> THEN <<>> ELSE <<",">>)
    \o <<"#fff", ",", "#000", ")">>
GradientCalls ==
  {Call("parseGradientsFromCSS", [fn |-> f, dir |-> d, words |-> GradientWords(f, d)]) :
     f \in {"linear-gradient", "radial-gradient", "conic-gradient"}, d \in Directions}

ParseGradient ==
  /\ call.fn = "parseGradientsFromCSS" /\ ~call.done
  /\ call' = Return(GradientShape(call.arg.words))
  /\ UNCHANGED <<build, generationSteps>>

\* colour strings: hexes with every channel near an end or the middle of the
\* range, and a string that is no colour
Channels == (0..ChannelEdge) \cup {127, 128} \cup ((255 - ChannelEdge)..255)
ParseColorCalls ==
  {Call("parseColor", Hex(r, g, b)) : r \in Channels, g \in Channels, b \in Channels}
    \cup {Call("parseColor", NotAColor)}

ParseColor ==
  /\ call.fn = "parseColor" /\ ~call.done
  /\ call' = Return(parseColor(call.arg))
  /\ UNCHANGED <<build, generationSteps>>

\* base colours: the parsed hexes above and the three default brand colours
BaseColors ==
  {parseColor(Hex(r, g, b)) : r \in Channels, g \in Channels, b \in Channels}
    \cup {parseColor(Navy), parseColor(Teal), parseColor(Coral)}
ShadeScaleCalls == {Call("generateShadeScale", c) : c \in BaseColors}
NeutralScaleCalls == {Call("generateNeutralScale", c) : c \in BaseColors}

GenerateShadeScale ==
  /\ call.fn = "generateShadeScale" /\ ~call.done
  /\ call' = Return(generateShadeScale(call.arg))
  /\ UNCHANGED <<build, generationSteps>>

GenerateNeutralScale ==
  /\ call.fn = "generateNeutralScale" /\ ~call.done
  /\ call' = Return(generateNeutralScale(call.arg, NeutralSteps))
  /\ UNCHANGED <<build, generationSteps>>

\* colour lists: the defaults, near and far colours, one too light to use and
\* a string that is no colour
PaletteStrings == {Navy, Teal, Coral, Blue, Red, Green, GhostWhite, NotAColor}
PaletteCalls ==
  {Call("buildColorPalette", cs) :
     cs \in UNION {[1..n -> PaletteStrings] : n \in 0..MaxPaletteInput}}

BuildColorPalette ==
  /\ call.fn = "buildColorPalette" /\ ~call.done
  /\ call' = Return(buildColorPalette(call.arg))
  /\ UNCHANGED <<build, generationSteps>>

\* font lists: families the extraction reports, one of them under two
\* categories as a vision response can list it
DetectedFontPool ==
  {Font("Inter", "display", <<"400", "700">>), Font("Inter", "sans-serif", <<"400", "700">>),
   Font("Roboto", "sans-serif", <<"400">>), Font("Georgia", "serif", <<"400">>),
   Font("Fira Code", "monospace", <<"400">>), Font("Montserrat", "sans-serif", <<"400">>)}
TypographyCalls ==
  {Call("buildTypography", fs) :
     fs \in UNION {[1..n -> DetectedFontPool] : n \in 0..MaxDetectedFonts}}

BuildTypography ==
  /\ call.fn = "buildTypography" /\ ~call.done
  /\ call' = Return(buildTypography(call.arg))
  /\ UNCHANGED <<build, generationSteps>>

(***************************************************************************)
(* The text of a model response, as a sequence of tokens: the fence mark,  *)
(* the word json, a line break, prose, or a JSON document.                 *)
(***************************************************************************)
\* three backticks
FenceMark == "<fence>"
Ws == "\n"
Prose == "Here is the analysis:"

\* the JSON documents a vision response and an LLM response carry
VisionDoc(token) ==
  CASE token = "{vision-1}" ->
         [colors |-> SubSeq(VisionRawPool, 1, 3),
          fonts |-> <<[family |-> "Inter", category |-> ""]>>,
          gradients |-> <<>>]
    [] token = "{vision-2}" ->
         [colors |-> SubSeq(VisionRawPool, 3, 6),
          fonts |-> <<[family |-> "Georgia, serif", category |-> "slab-serif"]>>,
          gradients |-> <<>>]
VisionDocs == {"{vision-1}", "{vision-2}"}
LLMDoc(token) ==
  CASE token = "{llm-1}" ->
         [suggestedColors |-> JsArray(<<"#028393", "#333333", "#7c3aed">>),
          suggestedFonts |-> <<[family |-> "Inter", category |-> ""]>>]
    [] token = "{llm-2}" ->
         [suggestedColors |-> JsArray(<<"#f00", "notacolor", "#ff0000", "#1e3a8a">>),
          suggestedFonts |-> <<[family |-> "'Inter', sans-serif", category |-> "display"]>>]
    [] token = "{}" ->
         [suggestedColors |-> JsArray(<<>>), suggestedFonts |-> <<>>]
LLMDocs == {"{llm-1}", "{llm-2}"}

\* String.prototype.trim
RECURSIVE TrimStart(_)
TrimStart(ts) ==
  IF ts # <<>> /\ Head(ts) = Ws THEN TrimStart(Tail(ts)) ELSE ts
Trim(ts) == Reverse(TrimStart(Reverse(TrimStart(ts))))

\* content.match(/<fence>json\s*([\s\S]*?)\s*<fence>/) and the same without json:
\* the leftmost opening mark that a closing mark follows, and the text up to
\* the first closing mark after it
FenceMatch(ts, json) ==
  LET skip == IF json THEN 1 ELSE 0
      Opens(i) == /\ ts[i] = FenceMark
                  /\ json => (i + 1 <= Len(ts) /\ ts[i + 1] = "json")
                  /\ \E j \in (i + skip + 1)..Len(ts) : ts[j] = FenceMark
      opens == {i \in DOMAIN ts : Opens(i)}
  IN IF opens = {} THEN [found |-> FALSE, group |-> <<>>]
     ELSE LET i == CHOOSE a \in opens : \A b \in opens : a <= b
              closes == {j \in (i + skip + 1)..Len(ts) : ts[j] = FenceMark}
              j == CHOOSE a \in closes : \A b \in closes : a <= b
          IN [found |-> TRUE, group |-> Trim(SubSeq(ts, i + skip + 1, j - 1))]

\* JSON.parse: the text is one JSON document, or a SyntaxError is thrown
JSONParse(ts, docs) ==
  IF Len(Trim(ts)) = 1 /\ Trim(ts)[1] \in docs
  THEN [ok |-> TRUE, doc |-> Trim(ts)[1]]
  ELSE [ok |-> FALSE, doc |-> ""]

\* extractBrandAssetsWithVision from the message content on
VisionFromContent(content) ==
  LET jsonMatch == IF FenceMatch(content, TRUE).found
                   THEN FenceMatch(content, TRUE) ELSE FenceMatch(content, FALSE)
      jsonStr == IF jsonMatch.found THEN jsonMatch.group ELSE content
      parsed == JSONParse(Trim(jsonStr), VisionDocs)
  IN IF parsed.ok THEN TransformVision(VisionDoc(parsed.doc)) ELSE NoResult

\* interpretBrandAssetsWithLLM from the message content on
LLMFromContent(content) ==
  LET parsed == JSONParse(IF content = <<>> THEN <<"{}">> ELSE content,
                          LLMDocs \cup {"{}"})
  IN IF parsed.ok THEN InterpretResult(LLMDoc(parsed.doc)) ELSE EmptyInterpretation

\* message contents: the document bare, in a fence with and without the json
\* tag, after a line of prose, cut short, and no content at all
Fenced(tag, doc) == <<FenceMark>> \o tag \o <<Ws, doc, Ws, FenceMark>>
Contents(docs) ==
  UNION {{<<doc>>, <<Ws, doc, Ws>>, Fenced(<<>>, doc), Fenced(<<"json">>, doc),
          <<Prose, Ws>> \o Fenced(<<"json">>, doc), <<Prose, Ws, doc>>,
          <<FenceMark, "json", Ws, doc>>} : doc \in docs} \cup {<<>>}
ContentCalls ==
  {Call("extractBrandAssetsWithVision", c) : c \in Contents(VisionDocs)}
    \cup {Call("interpretBrandAssetsWithLLM", c) : c \in Contents(LLMDocs)}

VisionContent ==
  /\ call.fn = "extractBrandAssetsWithVision" /\ ~call.done
  /\ call' = Return(VisionFromContent(call.arg))
  /\ UNCHANGED <<build, generationSteps>>

LLMContent ==
  /\ call.fn = "interpretBrandAssetsWithLLM" /\ ~call.done
  /\ call' = Return(LLMFromContent(call.arg))
  /\ UNCHANGED <<build, generationSteps>>

(***************************************************************************)
(* The v1 API routes.  A request carries its x-api-key header ("" when     *)
(* absent) and its body; serverKey is BRAND_BUILDER_API_KEY ("" when not   *)
(* set).                                                                   *)
(***************************************************************************)
\* validateApiKey: if (!validApiKey) return true; return apiKey === validApiKey
validateApiKey(apiKey, validApiKey) ==
  IF validApiKey = "" THEN TRUE
  ELSE apiKey # "" /\ apiKey = validApiKey

JsUndefined == [kind |-> "undefined", value |-> ""]
JsText(text) == [kind |-> "string", value |-> text]
JsNumber(digits) == [kind |-> "number", value |-> digits]

\* !url
Falsy(v) ==
  \/ v.kind = "undefined"
  \/ v.kind = "string" /\ v.value = ""
  \/ v.kind = "number" /\ v.value = "0"

\* url.startsWith('http://') || url.startsWith('https://') ? url : `https://${url}`
WithProtocol(url) ==
  CASE url = "example.com" -> "https://example.com"
    [] url = "exa mple" -> "https://exa mple"
    [] OTHER -> url

\* new URL(validUrl) does not throw
URLParses(validUrl) ==
  validUrl \in {"https://example.com", "http://example.com/path"}

Response(status, body, built) == [status |-> status, body |-> body, built |-> built]
Unauthorized == Response(401, "error", FALSE)

\* POST /api/v1/generate; settles is how buildBrandKit ends if it is called
POST(request, settles) ==
  IF ~validateApiKey(request.apiKey, request.serverKey) THEN Unauthorized
  ELSE IF request.body.json # "object" THEN Response(500, "error", FALSE)
  ELSE LET url == request.body.url IN
       IF Falsy(url) THEN Response(400, "error", FALSE)
       ELSE IF url.kind # "string" THEN Response(500, "error", FALSE)
       ELSE IF ~URLParses(WithProtocol(url.value)) THEN Response(400, "error", FALSE)
       ELSE IF settles = "rejects" THEN Response(500, "error", TRUE)
       ELSE Response(200, "brandKit", TRUE)

\* GET /api/v1/health
GET(request) ==
  IF ~validateApiKey(request.apiKey, request.serverKey) THEN Unauthorized
  ELSE Response(200, "status", FALSE)

\* requests: no header, a wrong key and the right one, against a server with
\* and without a key; bodies that are no JSON, null, without url, and with
\* urls that are empty, bare, complete, unparseable and not a string
ApiKeys == {"", "wrong-key", "secret-key"}
ServerKeys == {"", "secret-key"}
Bodies ==
  {[json |-> "invalid", url |-> JsUndefined], [json |-> "null", url |-> JsUndefined]}
    \cup {[json |-> "object", url |-> u] :
            u \in {JsUndefined, JsText(""), JsText("example.com"),
                   JsText("https://example.com"), JsText("http://example.com/path"),
                   JsText("exa mple"), JsText("http://"), JsNumber("123")}}
NoBody == [json |-> "none", url |-> JsUndefined]
ApiCalls ==
  {Call("POST /api/v1/generate", [apiKey |-> k, serverKey |-> v, body |-> b]) :
     k \in ApiKeys, v \in ServerKeys, b \in Bodies}
    \cup {Call("GET /api/v1/health", [apiKey |-> k, serverKey |-> v, body |-> NoBody]) :
            k \in ApiKeys, v \in ServerKeys}

Generate ==
  /\ call.fn = "POST /api/v1/generate" /\ ~call.done
  /\ \E settles \in {"resolves", "rejects"} :
       call' = Return(POST(call.arg, settles))
  /\ UNCHANGED <<build, generationSteps>>

Health ==
  /\ call.fn = "GET /api/v1/health" /\ ~call.done
  /\ call' = Return(GET(call.arg))
  /\ UNCHANGED <<build, generationSteps>>

(***************************************************************************)
(* The step-tracking store: the GenerationStep rows of one brand kit.      *)
(* Dates, payloads and texts are abstracted to "set" values; Null is the   *)
(* SQL NULL and Undefined an argument left out, which Prisma's update      *)
(* skips.                                                                  *)
(***************************************************************************)
Null == "null"
Undefined == "undefined"

STEP_ORDER ==
  <<"FETCH_WEBSITE", "EXTRACT_COLORS", "EXTRACT_FONTS", "EXTRACT_LOGOS",
    "EXTRACT_CONTENT", "GENERATE_PALETTE", "GENERATE_GRADIENTS",
    "GENERATE_TYPOGRAPHY", "GENERATE_BUTTONS", "GENERATE_HEROES",
    "ANALYZE_PERSONALITY", "GENERATE_VOICE", "GENERATE_TOKENS", "COMPILE_KIT">>

\* a row as the table's column defaults leave it
NewStep(stepType, stepOrder) ==
  [stepType |-> stepType, stepOrder |-> stepOrder, status |-> "PENDING",
   input |-> Null, output |-> Null, error |-> Null, attempts |-> 0,
   startedAt |-> Null, completedAt |-> Null, durationMs |-> Null,
   model |-> Null, tokensUsed |-> Null]

\* mutant: the first step is left out
createBrandKit_FromSecond ==
  [i \in 1..(Len(STEP_ORDER) - 1) |-> NewStep(STEP_ORDER[i + 1], i)]

\* createBrandKit: STEP_ORDER.map((stepType, index) => ...)
createBrandKit ==
  [i \in 1..Len(STEP_ORDER) |-> NewStep(STEP_ORDER[i], i - 1)]

\* prisma.generationStep.update({where: {brandKitId_stepType}, data}): the one
\* row of that type is rewritten, a skipped field keeps its value
Given(value, old) == IF value = Undefined THEN old ELSE value
UpdateStep(rows, stepType, Data(_)) ==
  [i \in DOMAIN rows |->
     IF rows[i].stepType = stepType THEN Data(rows[i]) ELSE rows[i]]

\* mutant: starting a step does not count the attempt
startStep_NoIncrement(rows, stepType, input) ==
  LET Data(row) == [row EXCEPT !.status = "IN_PROGRESS", !.startedAt = "date",
                               !.input = Given(input, @)]
  IN UpdateStep(rows, stepType, Data)

startStep(rows, stepType, input) ==
  LET Data(row) == [row EXCEPT !.status = "IN_PROGRESS", !.startedAt = "date",
                               !.input = Given(input, @),
                               !.attempts = @ + 1]
  IN UpdateStep(rows, stepType, Data)

completeStep(rows, stepType, output, model, tokensUsed) ==
  LET Data(row) ==
        [row EXCEPT !.status = "COMPLETED", !.completedAt = "date",
                    !.output = output,
                    !.durationMs = IF row.startedAt # Null THEN "ms" ELSE Null,
                    !.model = Given(model, @),
                    !.tokensUsed = Given(tokensUsed, @),
                    !.error = Null]
  IN UpdateStep(rows, stepType, Data)

failStep(rows, stepType, error) ==
  LET Data(row) == [row EXCEPT !.status = "FAILED", !.completedAt = "date",
                               !.error = error]
  IN UpdateStep(rows, stepType, Data)

skipStep(rows, stepType, reason) ==
  LET Data(row) == [row EXCEPT !.status = "SKIPPED", !.completedAt = "date",
                               !.error = Given(reason, @)]
  IN UpdateStep(rows, stepType, Data)

\* mutant: a retry starts counting again
resetStep_ClearsAttempts(rows, stepType) ==
  LET Data(row) == [row EXCEPT !.status = "PENDING", !.startedAt = Null,
                               !.completedAt = Null, !.output = Null,
                               !.error = Null, !.durationMs = Null,
                               !.attempts = 0]
  IN UpdateStep(rows, stepType, Data)

resetStep(rows, stepType) ==
  LET Data(row) == [row EXCEPT !.status = "PENDING", !.startedAt = Null,
                               !.completedAt = Null, !.output = Null,
                               !.error = Null, !.durationMs = Null]
  IN UpdateStep(rows, stepType, Data)

\* steps.filter(s => s.status === status).length
CountStatus(rows, status) ==
  Cardinality({i \in DOMAIN rows : rows[i].status = status})

\* Math.round of 0 / 0
NaN == -1

getProgress(rows) ==
  LET total == Len(rows)
      completed == CountStatus(rows, "COMPLETED")
      failed == CountStatus(rows, "FAILED")
      skipped == CountStatus(rows, "SKIPPED")
  IN [total |-> total, completed |-> completed, failed |-> failed,
      inProgress |-> CountStatus(rows, "IN_PROGRESS"),
      pending |-> CountStatus(rows, "PENDING"), skipped |-> skipped,
      percentComplete |-> IF total = 0 THEN NaN ELSE Round(100 * completed, total),
      isComplete |-> completed + skipped = total,
      hasFailed |-> failed > 0]

\* the step types the operations below are called with, and the most starts
\* of one step
TouchedTypes == {"FETCH_WEBSITE", "EXTRACT_COLORS"}
MaxAttempts == 2

CreateBrandKit ==
  /\ generationSteps = <<>>
  /\ generationSteps' = createBrandKit
  /\ UNCHANGED <<call, build>>

HasStep(stepType) ==
  \E i \in DOMAIN generationSteps : generationSteps[i].stepType = stepType
StepOf(rows, stepType) ==
  rows[CHOOSE i \in DOMAIN rows : rows[i].stepType = stepType]

StartStep(stepType) ==
  /\ HasStep(stepType)
  /\ StepOf(generationSteps, stepType).attempts < MaxAttempts
  /\ \E input \in {Undefined, "input"} :
       generationSteps' = startStep(generationSteps, stepType, input)
  /\ UNCHANGED <<call, build>>

CompleteStep(stepType) ==
  /\ HasStep(stepType)
  /\ \E usage \in {<<Undefined, Undefined>>, <<"model", "tokens">>} :
       generationSteps' =
         completeStep(generationSteps, stepType, "output", usage[1], usage[2])
  /\ UNCHANGED <<call, build>>

FailStep(stepType) ==
  /\ HasStep(stepType)
  /\ generationSteps' = failStep(generationSteps, stepType, "error")
  /\ UNCHANGED <<call, build>>

SkipStep(stepType) ==
  /\ HasStep(stepType)
  /\ \E reason \in {Undefined, "reason"} :
       generationSteps' = skipStep(generationSteps, stepType, reason)
  /\ UNCHANGED <<call, build>>

ResetStep(stepType) ==
  /\ HasStep(stepType)
  /\ generationSteps' = resetStep(generationSteps, stepType)
  /\ UNCHANGED <<call, build>>

StepInit ==
  /\ call = NoCall
  /\ generationSteps = <<>>
  /\ firecrawlKey = FALSE
  /\ openaiKey = FALSE
  /\ BuildIdle

StepNext ==
  \/ CreateBrandKit
  \/ \E stepType \in TouchedTypes :
       \/ StartStep(stepType)
       \/ CompleteStep(stepType)
       \/ FailStep(stepType)
       \/ SkipStep(stepType)
       \/ ResetStep(stepType)

StepSpec == StepInit /\ [][StepNext]_vars

\* the rows getProgress reads: of the 14 steps so many COMPLETED, SKIPPED,
\* FAILED and IN_PROGRESS and the rest PENDING, or no row at all
StatusRows(c, s, f, p) ==
  [i \in 1..Len(STEP_ORDER) |->
     [createBrandKit[i] EXCEPT !.status =
        IF i <= c THEN "COMPLETED"
        ELSE IF i <= c + s THEN "SKIPPED"
        ELSE IF i <= c + s + f THEN "FAILED"
        ELSE IF i <= c + s + f + p THEN "IN_PROGRESS"
        ELSE "PENDING"]]
ProgressCalls ==
  {Call("getProgress", StatusRows(c, s, f, p)) :
     c \in {0, 1, 13, 14}, s \in {0, 1, 14}, f \in {0, 1}, p \in {0, 1}}
    \cup {Call("getProgress", <<>>)}

GetProgress ==
  /\ call.fn = "getProgress" /\ ~call.done
  /\ call' = Return(getProgress(call.arg))
  /\ UNCHANGED <<build, generationSteps>>

\* the modular scale: ratios in thousandths, sizes and line heights in
\* hundredths, a missing letterSpacing as the empty sequence
RatioKeys ==
  <<"minor-second", "major-second", "minor-third", "major-third",
    "perfect-fourth", "augmented-fourth", "perfect-fifth", "golden-ratio">>
ScaleRatio(key) ==
  CASE key = "minor-second" -> 1067
    [] key = "major-second" -> 1125
    [] key = "minor-third" -> 1200
    [] key = "major-third" -> 1250
    [] key = "perfect-fourth" -> 1333
    [] key = "augmented-fourth" -> 1414
    [] key = "perfect-fifth" -> 1500
    [] key = "golden-ratio" -> 1618
BaseSizes == {14, 16, 18}
\* Math.round(baseSize * Math.pow(ratio, steps) * 100) for steps -2..6
ScaledSizes(baseSize, key) ==
  CASE key = "minor-second" /\ baseSize = 14 ->
         <<1230, 1312, 1400, 1494, 1594, 1701, 1815, 1936, 2066>>
    [] key = "minor-second" /\ baseSize = 16 ->
         <<1405, 1500, 1600, 1707, 1822, 1944, 2074, 2213, 2361>>
    [] key = "minor-second" /\ baseSize = 18 ->
         <<1581, 1687, 1800, 1921, 2049, 2187, 2333, 2489, 2656>>
    [] key = "major-second" /\ baseSize = 14 ->
         <<1106, 1244, 1400, 1575, 1772, 1993, 2243, 2523, 2838>>
    [] key = "major-second" /\ baseSize = 16 ->
         <<1264, 1422, 1600, 1800, 2025, 2278, 2563, 2883, 3244>>
    [] key = "major-second" /\ baseSize = 18 ->
         <<1422, 1600, 1800, 2025, 2278, 2563, 2883, 3244, 3649>>
    [] key = "minor-third" /\ baseSize = 14 ->
         <<972, 1167, 1400, 1680, 2016, 2419, 2903, 3484, 4180>>
    [] key = "minor-third" /\ baseSize = 16 ->
         <<1111, 1333, 1600, 1920, 2304, 2765, 3318, 3981, 4778>>
    [] key = "minor-third" /\ baseSize = 18 ->
         <<1250, 1500, 1800, 2160, 2592, 3110, 3732, 4479, 5375>>
    [] key = "major-third" /\ baseSize = 14 ->
         <<896, 1120, 1400, 1750, 2188, 2734, 3418, 4272, 5341>>
    [] key = "major-third" /\ baseSize = 16 ->
         <<1024, 1280, 1600, 2000, 2500, 3125, 3906, 4883, 6104>>
    [] key = "major-third" /\ baseSize = 18 ->
         <<1152, 1440, 1800, 2250, 2813, 3516, 4395, 5493, 6866>>
    [] key = "perfect-fourth" /\ baseSize = 14 ->
         <<788, 1050, 1400, 1866, 2488, 3316, 4420, 5892, 7854>>
    [] key = "perfect-fourth" /\ baseSize = 16 ->
         <<900, 1200, 1600, 2133, 2843, 3790, 5052, 6734, 8976>>
    [] key = "perfect-fourth" /\ baseSize = 18 ->
         <<1013, 1350, 1800, 2399, 3198, 4263, 5683, 7576, 10098>>
    [] key = "augmented-fourth" /\ baseSize = 14 ->
         <<700, 990, 1400, 1980, 2799, 3958, 5597, 7914, 11190>>
    [] key = "augmented-fourth" /\ baseSize = 16 ->
         <<800, 1132, 1600, 2262, 3199, 4523, 6396, 9044, 12788>>
    [] key = "augmented-fourth" /\ baseSize = 18 ->
         <<900, 1273, 1800, 2545, 3599, 5089, 7196, 10175, 14387>>
    [] key = "perfect-fifth" /\ baseSize = 14 ->
         <<622, 933, 1400, 2100, 3150, 4725, 7088, 10631, 15947>>
    [] key = "perfect-fifth" /\ baseSize = 16 ->
         <<711, 1067, 1600, 2400, 3600, 5400, 8100, 12150, 18225>>
    [] key = "perfect-fifth" /\ baseSize = 18 ->
         <<800, 1200, 1800, 2700, 4050, 6075, 9113, 13669, 20503>>
    [] key = "golden-ratio" /\ baseSize = 14 ->
         <<535, 865, 1400, 2265, 3665, 5930, 9595, 15525, 25119>>
    [] key = "golden-ratio" /\ baseSize = 16 ->
         <<611, 989, 1600, 2589, 4189, 6777, 10966, 17742, 28707>>
    [] key = "golden-ratio" /\ baseSize = 18 ->
         <<688, 1112, 1800, 2912, 4712, 7624, 12336, 19960, 32296>>
ScaleSteps ==
  <<[name |-> "xs", steps |-> -2], [name |-> "sm", steps |-> -1],
    [name |-> "base", steps |-> 0], [name |-> "lg", steps |-> 1],
    [name |-> "xl", steps |-> 2], [name |-> "2xl", steps |-> 3],
    [name |-> "3xl", steps |-> 4], [name |-> "4xl", steps |-> 5],
    [name |-> "5xl", steps |-> 6]>>
\* letterSpacing: steps >= 3 ? -0.02 : undefined
Tight_TwoLargest(steps) == IF steps >= 5 THEN <<-2>> ELSE <<>>
Tight(steps) == IF steps >= 3 THEN <<-2>> ELSE <<>>
generateTypeScale(baseSize, key) ==
  [ratio |-> ScaleRatio(key),
   sizes |->
     [i \in 1..Len(ScaleSteps) |->
        LET steps == ScaleSteps[i].steps
            isBodySize == steps <= 0
        IN [name |-> ScaleSteps[i].name,
            size |-> ScaledSizes(baseSize, key)[i],
            lineHeight |->
              IF isBodySize THEN 160 ELSE Max2(110, 150 - steps * 10),
            letterSpacing |-> Tight(steps)]]]
TypeScaleCalls ==
  {Call("generateTypeScale", <<b, RatioKeys[k]>>) :
     b \in BaseSizes, k \in 1..Len(RatioKeys)}

GenerateTypeScale ==
  /\ call.fn = "generateTypeScale" /\ ~call.done
  /\ call' = Return(generateTypeScale(call.arg[1], call.arg[2]))
  /\ UNCHANGED <<build, generationSteps>>

UtilCalls ==
  GradientCalls \cup ParseColorCalls \cup ShadeScaleCalls \cup NeutralScaleCalls
    \cup PaletteCalls \cup TypographyCalls \cup TypeScaleCalls
    \cup ProgressCalls \cup ContentCalls \cup ApiCalls

UtilInit ==
  /\ call \in UtilCalls
  /\ generationSteps = <<>>
  /\ firecrawlKey = FALSE
  /\ openaiKey = FALSE
  /\ BuildIdle

UtilNext ==
  \/ ParseGradient
  \/ ParseColor
  \/ GenerateShadeScale
  \/ GenerateNeutralScale
  \/ BuildColorPalette
  \/ BuildTypography
  \/ GenerateTypeScale
  \/ GetProgress
  \/ VisionContent
  \/ LLMContent
  \/ Generate
  \/ Health

UtilSpec == UtilInit /\ [][UtilNext]_vars

\* the angle section 4.1 step 7 gives a direction keyword
KeywordAngle(dir) ==
  CASE dir = <<"to", "right">> -> 90
    [] dir = <<"to", "left">> -> 270
    [] dir = <<"to", "bottom">> -> 180
    [] dir = <<"to", "top">> -> 0
    [] dir = <<"to", "top", "right">> -> 45
    [] dir = <<"to", "bottom", "right">> -> 135
    [] dir = <<"to", "bottom", "left">> -> 225
    [] dir = <<"to", "top", "left">> -> 315
    [] OTHER -> NoAngle

\* C12: gradient post-processing gives type radial / conic (angle undefined)
\* to a radial- / conic-gradient and linear otherwise; a linear gradient gets
\* angle N from an explicit Ndeg, else 90 / 270 / 180 / 0 from to right / to
\* left / to bottom / to top and 45 / 135 / 225 / 315 from to top right / to
\* bottom right / to bottom left / to top left, else no angle.
C12_GradientTypeAndAngle ==
  Returned("parseGradientsFromCSS") =>
    LET a == call.arg
    IN /\ a.fn = "radial-gradient" => call.out = [type |-> "radial", angle |-> NoAngle]
       /\ a.fn = "conic-gradient" => call.out = [type |-> "conic", angle |-> NoAngle]
       /\ a.fn = "linear-gradient" =>
            /\ call.out.type = "linear"
            /\ Len(a.dir) = 2 /\ a.dir[2] = "deg" => ToString(call.out.angle) = a.dir[1]
            /\ a.dir = <<>> => call.out.angle = NoAngle
            /\ KeywordAngle(a.dir) # NoAngle => call.out.angle = KeywordAngle(a.dir)

\* the categories categorizeFont can return
FontCategories == {"serif", "sans-serif", "display", "handwriting", "monospace"}

\* C13: every font of the extraction result, whether the collector, the vision
\* model or the LLM supplied it, has a category of the closed set {serif,
\* sans-serif, display, handwriting, monospace}, the one the keyword
\* categorization gives its family name.
C13_UniformFontCategory ==
  \A i \in DOMAIN fonts :
    /\ fonts[i].category \in FontCategories
    /\ fonts[i].category = categorizeFont(fonts[i].family)

\* C14: every Color parseColor produces has an integer hue with 0 <= h < 360
\* and integer saturation and lightness with 0 <= s, l <= 100.
C14_HslRanges ==
  Returned("parseColor") /\ call.out.hex.ok =>
    /\ call.out.hsl.h \in 0..359
    /\ call.out.hsl.s \in 0..100
    /\ call.out.hsl.l \in 0..100

\* C18: in every scale generateShadeScale produces, for any base colour, the
\* integer lightness strictly decreases along 50, 100, 200, ..., 900, 950, and
\* the base slot is the input colour itself.
C18_ShadesDarken ==
  Returned("generateShadeScale") =>
    /\ \A k \in 1..(Len(ShadeKeys) - 1) :
         call.out.shades[k].hsl.l > call.out.shades[k + 1].hsl.l
    /\ call.out.base = call.arg

\* C18 witness: the scale of a base lighter than every shade and of one
\* darker than every shade
C18_Witness ==
  /\ Returned("generateShadeScale")
  /\ call.arg.hsl.l \in {0, 100}
  /\ call.out.shades[1].hsl.l = 97
  /\ call.out.shades[11].hsl.l = 6

UsableOf(extractedColors) ==
  SelectSeq([i \in DOMAIN extractedColors |-> parseColor(extractedColors[i])], Usable)
Separated(cs, t) ==
  \A i, j \in DOMAIN cs : i # j => deltaE(cs[i].hex, cs[j].hex) > 100 * t

FullScale(scale) ==
  /\ DOMAIN scale.shades = DOMAIN ShadeKeys
  /\ \A k \in DOMAIN scale.shades : scale.shades[k].hex.ok
  /\ scale.base.hex.ok

\* C17: buildColorPalette returns a full palette for every input list:
\* primary, secondary and accent with all 11 shades and a base, 10 neutrals,
\* 3 utility and 4 semantic colours, none undefined; when every input is
\* unparseable or has lightness outside (10, 90) the role bases are navy
\* #1e3a8a, teal #028393 and coral #f65625.
C17_PaletteAlwaysFull ==
  Returned("buildColorPalette") =>
    LET out == call.out
        noneUsable ==
          \A i \in DOMAIN call.arg :
            \/ ~call.arg[i].ok
            \/ parseColor(call.arg[i]).hsl.l <= MinLightness
            \/ parseColor(call.arg[i]).hsl.l >= MaxLightness
    IN /\ FullScale(out.primary) /\ FullScale(out.secondary) /\ FullScale(out.accent)
       /\ Len(out.neutral) = 10 /\ \A j \in DOMAIN out.neutral : out.neutral[j].hex.ok
       /\ Len(out.utility) = 3 /\ \A j \in DOMAIN out.utility : out.utility[j].hex.ok
       /\ DOMAIN out.semantic = {"success", "error", "warning", "info"}
       /\ \A f \in DOMAIN out.semantic : out.semantic[f].hex.ok
       /\ noneUsable =>
            /\ out.primary.base.hex = Navy
            /\ out.secondary.base.hex = Teal
            /\ out.accent.base.hex = Coral

\* C17 witness: the palette of a list holding only a string that is no colour
\* and a colour too light to use
C17_Witness ==
  /\ Returned("buildColorPalette")
  /\ NotAColor \in Range(call.arg)
  /\ GhostWhite \in Range(call.arg)
  /\ Range(call.arg) \subseteq {NotAColor, GhostWhite}
  /\ call.out.primary.base.hex = Navy

\* C20: in buildTypography body is the first detected sans-serif font whose
\* family differs from both the headlines pick and the subheadings pick, else
\* the PT Sans default; a body font taken from the detected fonts never has
\* the family of the headlines font or of the subheadings font.
C20_BodyDistinctFromBoth ==
  Returned("buildTypography") =>
    LET out == call.out
        distinct == {i \in DOMAIN call.arg :
                       /\ call.arg[i].category = "sans-serif"
                       /\ call.arg[i].family # out.headlines.family
                       /\ call.arg[i].family # out.subheadings.family}
    IN /\ distinct = {} => out.body.family = "PT Sans"
       /\ distinct # {} =>
            out.body = call.arg[CHOOSE i \in distinct : \A j \in distinct : i <= j]
       /\ out.body \in Range(call.arg) =>
            /\ out.body.family # out.headlines.family
            /\ out.body.family # out.subheadings.family

\* C21 as stated: negative letter-spacing on exactly the two largest steps
C21_Original ==
  Returned("generateTypeScale") =>
    \A i \in 1..Len(call.out.sizes) :
      (call.out.sizes[i].letterSpacing # <<>>) <=> (i > Len(call.out.sizes) - 2)

\* C21 (amended): generateTypeScale returns the 9 steps xs, sm, base, lg, xl,
\* 2xl, 3xl, 4xl, 5xl in that order; steps up to base have line height 1.6,
\* larger steps a line height that never increases and is never below 1.1, and
\* the negative letter-spacing is on exactly the four largest steps, 2xl to 5xl
C21_TypeScaleShape ==
  Returned("generateTypeScale") =>
    LET sizes == call.out.sizes IN
    /\ [i \in 1..Len(sizes) |-> sizes[i].name]
         = <<"xs", "sm", "base", "lg", "xl", "2xl", "3xl", "4xl", "5xl">>
    /\ \A i \in 1..3 : sizes[i].lineHeight = 160
    /\ \A i \in 4..9 : sizes[i].lineHeight >= 110
    /\ \A i \in 4..8 : sizes[i + 1].lineHeight <= sizes[i].lineHeight
    /\ \A i \in 1..9 : (sizes[i].letterSpacing = <<-2>>) <=> (i >= 6)
    /\ \A i \in 1..9 : sizes[i].letterSpacing \in {<<>>, <<-2>>}
C21_Witness ==
  /\ Returned("generateTypeScale")
  /\ call.arg = <<16, "golden-ratio">>
  /\ call.out.sizes[6].letterSpacing = <<-2>>
  /\ call.out.sizes[9].size = 28707

\* the moves section 6 allows a step's status: none, PENDING to IN_PROGRESS or
\* SKIPPED, IN_PROGRESS to COMPLETED, FAILED or SKIPPED, FAILED to PENDING
AllowedMove(from, to) ==
  \/ from = to
  \/ from = "PENDING" /\ to \in {"IN_PROGRESS", "SKIPPED"}
  \/ from = "IN_PROGRESS" /\ to \in {"COMPLETED", "FAILED", "SKIPPED"}
  \/ from = "FAILED" /\ to = "PENDING"

\* C22: under any sequence of startStep, completeStep, failStep, skipStep and
\* resetStep a step's status moves only PENDING -> IN_PROGRESS ->
\* COMPLETED | FAILED | SKIPPED (SKIPPED also straight from PENDING), and it
\* leaves a terminal status only when resetStep takes FAILED back to PENDING
C22_StatusMachine ==
  [][\A i \in DOMAIN generationSteps :
       /\ AllowedMove(generationSteps[i].status, generationSteps'[i].status)
       /\ (generationSteps[i].status = "FAILED"
             /\ generationSteps'[i].status = "PENDING")
            => ResetStep(generationSteps[i].stepType)]_vars

\* C26: createBrandKit creates one step per entry of STEP_ORDER, 14 in all,
\* each PENDING with attempts 0 and stepOrder its index; afterwards no step
\* operation adds, removes, duplicates or reorders steps
C26_FourteenSteps ==
  [][/\ (generationSteps = <<>> /\ generationSteps' # <<>>) =>
          /\ Len(generationSteps') = 14
          /\ \A i \in 1..14 :
               /\ generationSteps'[i].stepType = STEP_ORDER[i]
               /\ generationSteps'[i].stepOrder = i - 1
               /\ generationSteps'[i].status = "PENDING"
               /\ generationSteps'[i].attempts = 0
     /\ generationSteps # <<>> =>
          /\ Len(generationSteps') = Len(generationSteps)
          /\ \A i \in DOMAIN generationSteps :
               /\ generationSteps'[i].stepType = generationSteps[i].stepType
               /\ generationSteps'[i].stepOrder = generationSteps[i].stepOrder]_vars
C26_Witness ==
  /\ Len(generationSteps) = 14
  /\ \A i \in 1..14 : \A j \in 1..14 :
       generationSteps[i].stepType = generationSteps[j].stepType => i = j
  /\ generationSteps[1].status = "COMPLETED"
  /\ generationSteps[2].status = "SKIPPED"
  /\ generationSteps[14] = NewStep("COMPILE_KIT", 13)

\* C27: resetStep on a FAILED step sets its status to PENDING and clears
\* startedAt, completedAt, output, error and durationMs; stepType, stepOrder,
\* input, attempts and every other step stay as they were
C27_ResetFrame ==
  [][\A i \in DOMAIN generationSteps :
       (generationSteps[i].status = "FAILED"
          /\ ResetStep(generationSteps[i].stepType)) =>
         /\ generationSteps'[i].status = "PENDING"
         /\ generationSteps'[i].startedAt = Null
         /\ generationSteps'[i].completedAt = Null
         /\ generationSteps'[i].output = Null
         /\ generationSteps'[i].error = Null
         /\ generationSteps'[i].durationMs = Null
         /\ generationSteps'[i].stepType = generationSteps[i].stepType
         /\ generationSteps'[i].stepOrder = generationSteps[i].stepOrder
         /\ generationSteps'[i].input = generationSteps[i].input
         /\ generationSteps'[i].attempts = generationSteps[i].attempts
         /\ \A j \in DOMAIN generationSteps :
              j # i => generationSteps'[j] = generationSteps[j]]_vars
\* a step that was started with an input, and reset: only resetStep leaves a
\* started step PENDING
C27_Witness ==
  /\ generationSteps # <<>>
  /\ generationSteps[1].status = "PENDING"
  /\ generationSteps[1].attempts = 1
  /\ generationSteps[1].input = "input"
  /\ generationSteps[1].startedAt = Null
  /\ generationSteps[1].error = Null
  /\ generationSteps[2].status = "FAILED"

\* C28: a step's attempts is the number of startStep calls on it since
\* createBrandKit: 0 at creation, one more with each startStep, and the same
\* after completeStep, failStep, skipStep and resetStep
C28_AttemptsCountStarts ==
  [][/\ (generationSteps = <<>> /\ generationSteps' # <<>>) =>
          \A i \in DOMAIN generationSteps' : generationSteps'[i].attempts = 0
     /\ \A i \in DOMAIN generationSteps :
          generationSteps'[i].attempts =
            generationSteps[i].attempts
              + (IF StartStep(generationSteps[i].stepType) THEN 1 ELSE 0)]_vars
C28_Witness ==
  /\ generationSteps # <<>>
  /\ generationSteps[1].attempts = 2
  /\ generationSteps[1].status = "COMPLETED"
  /\ generationSteps[2].attempts = 0
  /\ generationSteps[2].status = "SKIPPED"

\* C29: getProgress returns counts with completed + failed + inProgress +
\* pending + skipped = total; isComplete holds exactly when no step is PENDING,
\* IN_PROGRESS or FAILED; and whenever isComplete holds percentComplete is 100
C29_ProgressConsistent ==
  Returned("getProgress") =>
    LET out == call.out
        rows == call.arg
    IN /\ out.completed + out.failed + out.inProgress + out.pending + out.skipped
            = out.total
       /\ out.isComplete <=>
            ~\E i \in DOMAIN rows :
               rows[i].status \in {"PENDING", "IN_PROGRESS", "FAILED"}
       /\ out.isComplete => out.percentComplete = 100

\* onProgress received a 'complete' / an 'error' event
Stages(events) == {events[i].stage : i \in DOMAIN events}

C30_RejectedLate ==
  /\ pc = "rejected"
  /\ llmResults.called
  /\ onProgress[Len(onProgress)] = [stage |-> "error", progress |-> 0]

\* the accumulator after the bodies that loaded were parsed one after another
\* in link order, on top of what the inline styles and <style> blocks gave
InLinkOrder(p, res) ==
  LET urls == FetchedUrls(p)
      acc[k \in 0..Len(urls)] ==
        IF k = 0 THEN CollectLocal(p)
        ELSE IF res[k] = "ok" THEN parseCSS(SheetText(urls[k]), acc[k - 1])
        ELSE acc[k - 1]
  IN ExtractAllGoogleFonts(GoogleLinks(p), acc[Len(urls)])

\* C25: the RawCSSData accumulator is mutated only sequentially: by the inline
\* styles and <style> blocks before the stylesheet fetches start, not at all
\* while they are in flight, and by the fetched stylesheets only once all of
\* them have settled, in link order; so colors, gradients, fonts and their
\* order depend on the outcomes alone, not on the order of completion
C25_SequentialAccumulator ==
  [][/\ (pc = "css_check" /\ pc' = "await_sheets") => cssData' = CollectLocal(page)
     /\ (pc = "await_sheets" /\ pc' = "await_sheets") => cssData' = cssData
     /\ (pc = "await_sheets" /\ pc' # "await_sheets") =>
          /\ \A i \in DOMAIN sheetRes : sheetRes[i] \in {"ok", "fail"}
          /\ cssData'.colors = InLinkOrder(page, sheetRes).colors
          /\ cssData'.gradients = InLinkOrder(page, sheetRes).gradients
          /\ cssData'.fonts = InLinkOrder(page, sheetRes).fonts]_vars
\* three stylesheets loaded around one that failed, and all were parsed
C25_Witness ==
  /\ css.ran
  /\ Len(sheetRes) = 5
  /\ sheetRes[1] = "ok" /\ sheetRes[2] = "fail" /\ sheetRes[3] = "ok"
  /\ sheetRes[5] = "ok"
  /\ Len(cssData.colors) >= 2
  /\ Len(cssData.fonts) >= 1

\* C23: the vision call and the LLM CSS-interpretation call both tolerate a
\* fenced code block: valid JSON in a plain or a json fence yields the same
\* suggested colors and fonts as the same JSON unfenced
C23_FenceTolerated ==
  /\ Returned("extractBrandAssetsWithVision") =>
       \A doc \in VisionDocs : \A tag \in {<<>>, <<"json">>} :
         call.arg = Fenced(tag, doc) =>
           /\ call.out.colors = VisionFromContent(<<doc>>).colors
           /\ call.out.fonts = VisionFromContent(<<doc>>).fonts
  /\ Returned("interpretBrandAssetsWithLLM") =>
       \A doc \in LLMDocs : \A tag \in {<<>>, <<"json">>} :
         call.arg = Fenced(tag, doc) =>
           /\ call.out.suggestedColors = LLMFromContent(<<doc>>).suggestedColors
           /\ call.out.suggestedFonts = LLMFromContent(<<doc>>).suggestedFonts
\* the vision half of C23 alone
C23_VisionFenceTolerated ==
  Returned("extractBrandAssetsWithVision") =>
    \A doc \in VisionDocs : \A tag \in {<<>>, <<"json">>} :
      call.arg = Fenced(tag, doc) =>
        /\ call.out.present
        /\ call.out.colors = VisionFromContent(<<doc>>).colors
        /\ call.out.fonts = VisionFromContent(<<doc>>).fonts

\* the request carries the key the server is configured with
HasValidKey(request) ==
  request.apiKey # "" /\ request.serverKey # "" /\ request.apiKey = request.serverKey
\* the body's url is missing, or is no string that parses as a URL
BadUrl(body) ==
  \/ body.json # "object"
  \/ Falsy(body.url)
  \/ body.url.kind # "string"
  \/ ~URLParses(WithProtocol(body.url.value))

\* C24: a request to POST /api/v1/generate or GET /api/v1/health without a
\* valid x-api-key is answered 401 with an {error} body and buildBrandKit is
\* not invoked; for generate with a valid key, a missing or malformed url is
\* answered 400 before any build starts, and a failed build 500
C24_ApiGuards ==
  (Returned("POST /api/v1/generate") \/ Returned("GET /api/v1/health")) =>
    /\ ~HasValidKey(call.arg) =>
         call.out.status = 401 /\ call.out.body = "error" /\ ~call.out.built
    /\ (Returned("POST /api/v1/generate") /\ HasValidKey(call.arg)
          /\ BadUrl(call.arg.body)) =>
         call.out.status = 400 /\ ~call.out.built
    /\ (call.out.built /\ call.out.body # "brandKit") => call.out.status = 500

====
